---- MODULE Spec2Model ----
(***************************************************************************)
(* llmsee: a reverse proxy that audits every call in a log store and       *)
(* broadcasts the log mutations to connected SSE subscribers.              *)
(*                                                                         *)
(* Spec       the Proxy Engine's audit lifecycle (handleProxy,             *)
(*            insertLogRequest, updateLogRequest) together with the Event  *)
(*            Broadcast Hub (sendSSEUpdate, handleSse,                     *)
(*            gracefulShutdownSSE).                                        *)
(* LiveSpec   Spec with the fairness the Go scheduler gives a runnable     *)
(*            goroutine.                                                   *)
(* SpecModels the Model Aggregation Cache (getAllModels).                  *)
(* SpecRouter the Request Router and the head of the Proxy Engine: one     *)
(*            request through handleProxy up to the dispatch, for every    *)
(*            request and configuration of the model.                      *)
(***************************************************************************)
EXTENDS Integers, Sequences, FiniteSets, TLC

(***************************************************************************)
(* Bounds of the model.                                                    *)
(***************************************************************************)
\* inbound proxy calls (handleProxy invocations) followed by the model
NumCalls == 2
\* SSE sessions (handleSse invocations) followed by the model
NumSubs == 2
\* capacity of a subscriber's events channel; stands for the 100 of
\* make(chan ServerUpdate, 100)
QueueCap == 1
\* handlers (calls and sessions together) followed by the model at most
MaxHandlers == 3
\* the ceiling of a request body in bytes; stands for httpMaxRequestBodySize
MaxBytes == 2
\* GET /v1/models requests (getAllModels invocations) followed by the model
NumReq == 2

Calls == 1..NumCalls
Subs == 1..NumSubs
Reqs == 1..NumReq

\* status codes a backend answers with
BackendStatuses == {200}

VARIABLES
    \* ---- Proxy Engine, one handleProxy goroutine per call ----
    pc,             \* position of each call's handler
    entryId,        \* entry.Id of each call (0 until insertLogRequest gave one)
    respStatus,     \* resp.StatusCode of each call (0 before a response)
    outcome,        \* how each call's handler ended
    todo,           \* subscribers sendSSEUpdate's range loop has not visited yet
    updAttempts,    \* per call, number of updateLogRequest calls
    \* ---- Audit Log Store ----
    db,             \* the logs table: sequence of rows, row i has id i
    \* ---- Event Broadcast Hub ----
    clientChannels, \* s.clientChannels: set of registered sessions
    readers,        \* calls holding s.mu.RLock
    events,         \* client.events of each session: buffered channel content
    eventsClosed,   \* how many times close(client.events) ran
    doneClosed,     \* how many times close(client.done) ran
    spc,            \* position of each session's handleSse
    ctxDone,        \* r.Context() of the session is done (client went away)
    stream,         \* frames written to each session's ResponseWriter
    hubPanic,       \* a send on, or a close of, a closed channel happened
    shutdown,       \* position of main's shutdown sequence
    \* ---- history ----
    published,      \* the events handed to sendSSEUpdate so far
    finished,       \* the events whose sendSSEUpdate has returned
    before,         \* <<e1, e2>>: sendSSEUpdate(e1) returned before sendSSEUpdate(e2) began
    audience,       \* per session, the events published while it was registered
    offered,        \* per session, the events sendSSEUpdate's select ran for, in order
    dropped,        \* per session, the events that took the select's default
    releasedBy,     \* per session, who closed its channels and unregistered it
    \* ---- Model Aggregation Cache, one getAllModels goroutine per request ----
    mpc,               \* position of each request's getAllModels
    attempt,           \* per request and provider, the state of its getModels goroutine
    combinedModelData, \* per request, the entries appended under mu so far
    respBuffer,        \* per request, the bytes json.Marshal gave it
    globalModelJSON,   \* the cache
    modelReaders,      \* requests holding modelDataMutex.RLock
    written,           \* per request, the response body written to its caller
    \* ---- history ----
    fanOuts,           \* how many times the fan-out over the providers was started
    storedValues,      \* every value that was assigned to globalModelJSON
    \* ---- Provider Registry ----
    configFile,        \* the providers object of the configuration file
    providers,         \* the keys of s.config.Providers after getConfig
    \* ---- Request Router and the head of handleProxy, for one request ----
    req,               \* the request: method, path, body
    hpc,               \* position of the request's handleProxy
    provider,          \* the handler's provider
    remainingPath,     \* the handler's remainingPath
    model,             \* the handler's model
    bodyJSON,          \* the handler's bodyJSON: its keys and values
    reply,             \* the status and the error envelope written to the caller
    header,            \* w.Header(): the response headers, name to value
    logged,            \* the entries handed to insertLogRequest
    outbound,          \* the calls made to a backend (s.client.Do)
    bodyRead,          \* r.Body was read
    \* ---- handleProxy from the dispatch on, for one call ----
    original,          \* r.Header: the headers the caller supplied
    providerConfig,    \* the backend's ProviderConfig: ApiKey and HeaderMapping
    proxyHeader,       \* proxyReq.Header
    resp,              \* what the backend answers: encoding, kind and body
    fpc,               \* position of the handler
    unread,            \* the part of resp.Body not read yet
    wire,              \* the calls made on the caller's ResponseWriter, in order
    combinedData,      \* the bytes accumulated for the audit copy
    totalChunks,       \* the number of read units that carried bytes
    cancelled,         \* where the handler was when r.Context() was cancelled
    entry,             \* the entry handed to updateLogRequest (Nil before)
    \* ---- Audit Log Store, one handleLogList goroutine for GET /log ----
    PageSize,          \* s.config.PageSize
    page,              \* r.URL.Query().Get("page"), as bytes
    lpc,               \* position of the handler
    logResponse        \* what the handler wrote (Nil before)

proxyVars == <<pc, entryId, respStatus, outcome, todo, updAttempts, db>>
cacheVars == <<mpc, attempt, combinedModelData, respBuffer, globalModelJSON,
               modelReaders, written, fanOuts, storedValues>>
configVars == <<configFile, providers>>
routerVars == <<req, hpc, provider, remainingPath, model, bodyJSON, reply, header,
                logged, outbound, bodyRead>>
forwardVars == <<original, providerConfig, proxyHeader, resp, fpc, unread, wire,
                 combinedData, totalChunks, cancelled, entry>>
logVars == <<PageSize, page, lpc, logResponse>>
hubVars == <<clientChannels, readers, events, eventsClosed, doneClosed, spc, ctxDone,
             stream, hubPanic, shutdown, published, finished, before, audience,
             offered, dropped, releasedBy>>
vars == <<pc, entryId, respStatus, outcome, todo, updAttempts, db, clientChannels,
          readers, events, eventsClosed, doneClosed, spc, ctxDone, stream, hubPanic,
          shutdown, published, finished, before, audience, offered, dropped,
          releasedBy, mpc, attempt, combinedModelData, respBuffer, globalModelJSON,
          modelReaders, written, fanOuts, storedValues, configFile, providers,
          req, hpc, provider, remainingPath, model, bodyJSON, reply, header,
          logged, outbound, bodyRead, original, providerConfig, proxyHeader, resp,
          fpc, unread, wire, combinedData, totalChunks, cancelled, entry, PageSize,
          page, lpc, logResponse>>

(***************************************************************************)
(* Data                                                                    *)
(***************************************************************************)
\* ServerUpdate{EventType, Entry}: the entry is reduced to its Id and
\* ResponseStatus; call names the handler that published it.
ServerUpdate(type, c, id, status) ==
    [eventType |-> type, id |-> id, status |-> status, call |-> c]

\* the frame handleSse writes first
InitFrame(s) == [eventType |-> "init", clientID |-> s]

\* a row as insertLogRequest leaves it: response_status and duration_ms at
\* the schema's default -1
PendingRow(c) == [call |-> c, status |-> -1, duration |-> -1, updates |-> 0]

\* Strings of the model cache are sequences of bytes, so that the
\* concatenation and the < of Go strings are computed, not assumed.
\* the provider names a configuration may hold: "a" and "b" are listed
\* over the network, "c" has a fixed list (providerConfig.Models) in the
\* configuration
Providers == {<<97>>, <<98>>, <<99>>}

\* the keys of defaultConfig.Providers; "a" stands for the built-in "ollama"
DefaultProviders == {<<97>>}

\* ProviderConfig.IsEnabled: Enabled == nil || *Enabled
IsEnabled(p) == p.enabled # "false"

\* getConfig's provider table for the providers object of a configuration
\* file: the defaults are added where the file names no such provider,
\* then the providers that are not enabled are deleted
GetConfig(file) ==
    LET merged == [p \in DOMAIN file \cup DefaultProviders |->
                      IF p \in DOMAIN file THEN file[p] ELSE [enabled |-> "nil"]]
    IN  {p \in DOMAIN merged : IsEnabled(merged[p])}

\* the providers object of the configuration files followed for the
\* model cache: all three providers, and "b" alone with the default off
ModelsConfigFiles ==
    { [p \in Providers |-> [enabled |-> "nil"]],
      [p \in {<<97>>, <<98>>} |-> [enabled |-> IF p = <<97>> THEN "false" ELSE "true"]] }

(***************************************************************************)
(* Requests to handleProxy. Strings that the code splits, trims or         *)
(* concatenates are sequences of bytes.                                    *)
(***************************************************************************)
\* a provider name that no configuration holds: "zz"
UnknownProvider == <<122, 122>>

\* "v1", the leading path segment of the unified endpoint
V1 == <<118, 49>>

\* "models" and "chat", the rest of a path
ModelsPath == <<109, 111, 100, 101, 108, 115>>
ChatPath == <<99, 104, 97, 116>>

\* r.URL.Path of the requests followed: "/", "/v1/models", "/v1/chat",
\* "/a/chat", "/b/chat/", "/c/models", "/zz/chat", "/a"
Paths ==
    { <<47>>,
      <<47>> \o V1 \o <<47>> \o ModelsPath,
      <<47>> \o V1 \o <<47>> \o ChatPath,
      <<47, 97, 47>> \o ChatPath,
      <<47, 98, 47>> \o ChatPath \o <<47>>,
      <<47, 99, 47>> \o ModelsPath,
      <<47>> \o UnknownProvider \o <<47>> \o ChatPath,
      <<47, 97>> }

Methods == {"GET", "POST", "OPTIONS"}

\* values of the "model" key of a body: "a:m", "a:m:1", "zz:m", "m",
\* ":m", "a:", ""
ModelStrings ==
    { <<97, 58, 109>>, <<97, 58, 109, 58, 49>>, UnknownProvider \o <<58, 109>>,
      <<109>>, <<58, 109>>, <<97, 58>>, <<>> }

\* a JSON string value and a JSON number value
StringValue(s) == [type |-> "string", s |-> s]
NumberValue == [type |-> "number"]

\* the documents a body may hold: bytes that are no JSON, the object {},
\* an object whose "model" is a number, and an object for each model string
Documents ==
    {[wellFormed |-> FALSE, object |-> <<>>]}
    \cup {[wellFormed |-> TRUE, object |-> <<>>]}
    \cup {[wellFormed |-> TRUE, object |-> [k \in {"model"} |-> NumberValue]]}
    \cup {[wellFormed |-> TRUE, object |-> [k \in {"model"} |-> StringValue(s)]] :
             s \in ModelStrings}

\* a request body: a document of docLen bytes followed by pad bytes of
\* white space; the empty body has neither
EmptyBody == [doc |-> [wellFormed |-> FALSE, object |-> <<>>], docLen |-> 0, pad |-> 0]

Bodies ==
    {EmptyBody}
    \cup {[doc |-> d, docLen |-> n, pad |-> w] :
             d \in Documents, n \in {1, MaxBytes + 1}, w \in {0, MaxBytes}}

\* r.URL.RawQuery of the requests followed: none, and "q=1"
Queries == {<<>>, <<113, 61, 49>>}

Requests == [method : Methods, path : Paths, query : Queries, body : Bodies]

\* GET / with no body
IndexRequest == [method |-> "GET", path |-> <<47>>, query |-> <<>>, body |-> EmptyBody]

\* the providers objects of the configuration files followed for the
\* router: each provider is absent, or present with enabled unset, true
\* or false
ConfigFiles ==
    UNION {[names -> [enabled : {"nil", "true", "false"}]] : names \in SUBSET Providers}

\* providerConfig.Models of a provider: its fixed list, <<>> for none
StaticModels(p) == IF p = <<99>> THEN << <<109, 49>> >> ELSE <<>>

\* the objects of the "data" array a provider's /models answers with, in
\* the order it sends them: "a" sends the ids "m2", "m1", and "b" sends
\* one object that has no "id"
Upstream(p) ==
    IF p = <<97>> THEN << [id |-> <<109, 50>>], [id |-> <<109, 49>>] >>
    ELSE << [object |-> "model"] >>

\* globalModelJSON before the first store
Nil == [object |-> "nil", data |-> <<>>]

(***************************************************************************)
(* Data of the log list: handleLogList                                     *)
(***************************************************************************)
\* the largest number of rows the logs table holds
MaxLogs == 5

\* the largest page size of the configurations followed
MaxPageSize == 2

\* defaultConfig.PageSize
DefaultPageSize == 20

\* the page sizes followed (loadConfig replaces 0 by the default)
PageSizes == 1..MaxPageSize

\* the values of the page parameter followed, as bytes: none, "x", "1x",
\* "0" to "4", "-1" and "+2"
PageParams ==
    { <<>>, <<120>>, <<49, 120>>, <<48>>, <<49>>, <<50>>, <<51>>, <<52>>, <<45, 49>>,
      <<43, 50>> }

\* a row earlier calls left in the logs table, complete
StoredRow == [call |-> 0, status |-> 200, duration |-> 1, updates |-> 1]

\* the logs tables followed: any number of rows up to MaxLogs
StoredTables == { [i \in 1..n |-> StoredRow] : n \in 0..MaxLogs }

(***************************************************************************)
(* Data of the forwarding path: handleProxy from proxyHeaders on           *)
(***************************************************************************)
\* the largest number of lines a backend's payload has
MaxLines == 2

\* the largest number of tokens one reader.Read(buf) returns
BufSize == 2

\* header names as net/http holds them: words joined by "-"
Host == <<"Host">>
Cookie == <<"Cookie">>
Origin == <<"Origin">>
Authorization == <<"Authorization">>
XApiKey == <<"X", "Api", "Key">>
Accept == <<"Accept">>

\* "Bearer "
Bearer == <<"Bearer ">>

\* the values a caller sends under a header name: r.Header[k], a []string
CallerValues(k) ==
    IF k = Authorization
    THEN { << <<"Bearer ", "caller">> >>, << <<"Bearer ", "caller">>, <<"Basic ", "second">> >> }
    ELSE { << <<"v">> >> }

\* r.Header of the calls followed: any set of these names, each with one
\* of its values
InboundHeaders ==
    UNION { { h \in [names -> UNION {CallerValues(k) : k \in names}] :
                \A k \in names : h[k] \in CallerValues(k) } :
            names \in SUBSET {Host, Cookie, Origin, Authorization, XApiKey, Accept} }

\* providerConfig.HeaderMapping of the backends followed, as written in
\* the configuration file: none, the credential renamed, another header
\* renamed, both
HeaderMappings ==
    { <<>>,
      (<<"authorization">> :> <<"x", "api", "key">>),
      (Accept :> <<"X", "Accept">>),
      (<<"authorization">> :> <<"x", "api", "key">>) @@ (Accept :> <<"X", "Accept">>) }

\* a HeaderMapping in which the target of one entry is the source of
\* another: authorization to x-api-key, and x-api-key to X-Accept
ChainedMappings ==
    { (<<"authorization">> :> <<"x", "api", "key">>)
        @@ (<<"x", "api", "key">> :> <<"X", "Accept">>) }

\* ProviderConfig of the backends followed: with and without an ApiKey
ProviderConfigs == [ApiKey : {<<>>, <<"static">>}, HeaderMapping : HeaderMappings]

\* the orders in which a range over the map m can visit its keys
Orders(m) ==
    { o \in [1..Cardinality(DOMAIN m) -> DOMAIN m] :
        \A i, j \in DOMAIN o : i # j => o[i] # o[j] }

\* content fragments, as bytes: " a" and "b "
FragmentA == <<32, 97>>
FragmentB == <<98, 32>>

\* the JSON objects event frames carry: the first has a model and no id,
\* the second an id and another model, the third an id and a usage
Frames ==
    { [model |-> "m1", content |-> FragmentA],
      [id |-> "x", model |-> "m2", system_fingerprint |-> "fp", created |-> 7,
       content |-> FragmentB],
      [id |-> "y", model |-> "m3", usage |-> "u"] }

\* the lines of a payload: a line without the marker "data: ", a marked
\* line whose payload is not JSON, the end marker, and the event frames
Lines ==
    { [marker |-> FALSE, payload |-> [text |-> "other"]],
      [marker |-> TRUE, payload |-> [text |-> "not json"]],
      [marker |-> TRUE, payload |-> [text |-> "[DONE]"]] }
    \cup { [marker |-> TRUE, payload |-> f] : f \in Frames }

\* the payloads a backend produces: up to MaxLines lines
Payloads == UNION { [1..n -> Lines] : n \in 0..MaxLines }

\* Content-Encoding values followed
Labels == {"", "identity", "gzip", "Gzip", "deflate", "br", "zstd", "snappy", "compress"}

\* strings.ToLower(encoding)
ToLower(encoding) == IF encoding = "Gzip" THEN "gzip" ELSE encoding

\* the compression schemes decompressBody has a case for
Schemes == {"gzip", "deflate", "br", "zstd", "snappy"}

\* a payload as a backend compresses it with a scheme: a header and the
\* payload's tokens in the scheme's coding
Compress(scheme, payload) ==
    << [magic |-> scheme] >>
    \o [i \in DOMAIN payload |-> [z |-> scheme, of |-> payload[i]]]
    \o << [trailer |-> scheme] >>

\* resp.StatusCode: the backend answers with a success or with an error
StatusCodes == {200, 404}

\* the responses followed: any status, streaming or not, any label, any
\* payload, sent as it is or compressed with the label's scheme
Responses ==
    UNION { { [StatusCode |-> code, streaming |-> st, encoding |-> l, body |-> b] :
                b \in {p} \cup (IF ToLower(l) \in Schemes
                                THEN {Compress(ToLower(l), p)} ELSE {}),
                code \in StatusCodes } :
            st \in BOOLEAN, l \in Labels, p \in Payloads }

(***************************************************************************)
(* Initial state: NewProxyServer has run, no call and no session yet.      *)
(***************************************************************************)
InitProxyHub ==
    /\ pc = [c \in Calls |-> "idle"]
    /\ entryId = [c \in Calls |-> 0]
    /\ respStatus = [c \in Calls |-> 0]
    /\ outcome = [c \in Calls |-> "none"]
    /\ todo = [c \in Calls |-> {}]
    /\ updAttempts = [c \in Calls |-> 0]
    /\ db = <<>>
    /\ clientChannels = {}
    /\ readers = {}
    /\ events = [s \in Subs |-> <<>>]
    /\ eventsClosed = [s \in Subs |-> 0]
    /\ doneClosed = [s \in Subs |-> 0]
    /\ spc = [s \in Subs |-> "new"]
    /\ ctxDone = [s \in Subs |-> FALSE]
    /\ stream = [s \in Subs |-> <<>>]
    /\ hubPanic = FALSE
    /\ shutdown = "running"
    /\ published = {}
    /\ finished = {}
    /\ before = {}
    /\ offered = [s \in Subs |-> <<>>]
    /\ dropped = [s \in Subs |-> {}]
    /\ audience = [s \in Subs |-> {}]
    /\ releasedBy = [s \in Subs |-> "none"]

\* the model cache before the first GET /v1/models
InitCache ==
    /\ mpc = [r \in Reqs |-> "idle"]
    /\ attempt = [r \in Reqs |-> [p \in Providers |-> "none"]]
    /\ combinedModelData = [r \in Reqs |-> <<>>]
    /\ respBuffer = [r \in Reqs |-> Nil]
    /\ globalModelJSON = Nil
    /\ modelReaders = {}
    /\ written = [r \in Reqs |-> Nil]
    /\ fanOuts = 0
    /\ storedValues = {}

\* a request has reached handleProxy; nothing is written yet
InitHandler(r) ==
    /\ req = r
    /\ hpc = "cors"
    /\ provider = <<>>
    /\ remainingPath = <<>>
    /\ model = <<>>
    /\ bodyJSON = <<>>
    /\ reply = [status |-> 0, error |-> "none"]
    /\ header = <<>>
    /\ logged = <<>>
    /\ outbound = <<>>
    /\ bodyRead = FALSE

\* a call has reached line 504 with these headers, for this backend,
\* which will answer with r
InitForward(h, p, r) ==
    /\ original = h
    /\ providerConfig = p
    /\ proxyHeader = <<>>
    /\ resp = r
    /\ fpc = "headers"
    /\ unread = r.body
    /\ wire = <<>>
    /\ combinedData = <<>>
    /\ totalChunks = 0
    /\ cancelled = "no"
    /\ entry = Nil

\* a call without headers, for a backend without credential, answered
\* with an empty body
InitForwardDefault ==
    InitForward(<<>>, [ApiKey |-> <<>>, HeaderMapping |-> <<>>],
                [StatusCode |-> 200, streaming |-> FALSE, encoding |-> "", body |-> <<>>])

\* a GET /log without page parameter has reached handleLogList, with the
\* page size of the default configuration
InitLogList(size, param) ==
    /\ PageSize = size
    /\ page = param
    /\ lpc = "count"
    /\ logResponse = Nil

InitLogDefault == InitLogList(DefaultPageSize, <<>>)

\* the process runs with the providers object file of a configuration file
InitConfig(file) ==
    /\ configFile = file
    /\ providers = GetConfig(file)

\* the process runs with the default configuration (no configuration file)
Init ==
    /\ InitProxyHub
    /\ InitCache
    /\ InitConfig(<<>>)
    /\ InitHandler(IndexRequest)
    /\ InitForwardDefault
    /\ InitLogDefault

\* the process runs with one of the configuration files
InitModels ==
    /\ InitProxyHub
    /\ InitCache
    /\ \E file \in ModelsConfigFiles : InitConfig(file)
    /\ InitHandler(IndexRequest)
    /\ InitForwardDefault
    /\ InitLogDefault

\* the process runs with any configuration file, and any request has
\* reached handleProxy
InitRouter ==
    /\ InitProxyHub
    /\ InitCache
    /\ \E file \in ConfigFiles : InitConfig(file)
    /\ \E r \in Requests : InitHandler(r)
    /\ InitForwardDefault
    /\ InitLogDefault

\* the process runs with the default configuration and a call has reached
\* line 504: its headers and its backend are any, or its response is
InitForwardAny ==
    /\ InitProxyHub
    /\ InitCache
    /\ InitConfig(<<>>)
    /\ InitHandler(IndexRequest)
    /\ InitLogDefault
    /\ \E h \in InboundHeaders, p \in ProviderConfigs, r \in Responses :
          /\ \/ r = [StatusCode |-> 200, streaming |-> FALSE, encoding |-> "",
                      body |-> <<>>]
             \/ h = <<>> /\ p = [ApiKey |-> <<>>, HeaderMapping |-> <<>>]
          /\ InitForward(h, p, r)

\* every call has stored its row, one after the other and before any
\* session was there, and waits for its backend; then every session has
\* connected and got its init frame
InitBroadcast ==
    /\ pc = [c \in Calls |-> "dispatch"]
    /\ entryId = [c \in Calls |-> c]
    /\ respStatus = [c \in Calls |-> 0]
    /\ outcome = [c \in Calls |-> "none"]
    /\ todo = [c \in Calls |-> {}]
    /\ updAttempts = [c \in Calls |-> 0]
    /\ db = [c \in Calls |-> PendingRow(c)]
    /\ clientChannels = Subs
    /\ readers = {}
    /\ events = [s \in Subs |-> <<>>]
    /\ eventsClosed = [s \in Subs |-> 0]
    /\ doneClosed = [s \in Subs |-> 0]
    /\ spc = [s \in Subs |-> "pump"]
    /\ ctxDone = [s \in Subs |-> FALSE]
    /\ stream = [s \in Subs |-> <<InitFrame(s)>>]
    /\ hubPanic = FALSE
    /\ shutdown = "running"
    /\ published = {ServerUpdate("insert", c, c, 0) : c \in Calls}
    /\ finished = {ServerUpdate("insert", c, c, 0) : c \in Calls}
    /\ before = UNION { { <<ServerUpdate("insert", c, c, 0),
                               ServerUpdate("insert", d, d, 0)>> : c \in 1..(d - 1) } :
                         d \in Calls }
    /\ offered = [s \in Subs |-> <<>>]
    /\ dropped = [s \in Subs |-> {}]
    /\ audience = [s \in Subs |-> {}]
    /\ releasedBy = [s \in Subs |-> "none"]
    /\ InitCache
    /\ InitConfig(<<>>)
    /\ InitHandler(IndexRequest)
    /\ InitForwardDefault
    /\ InitLogDefault

\* the logs table holds the rows of earlier calls, no call and no session
\* is there, and a GET /log with any page parameter has reached
\* handleLogList, for any page size
InitLog ==
    /\ pc = [c \in Calls |-> "idle"]
    /\ entryId = [c \in Calls |-> 0]
    /\ respStatus = [c \in Calls |-> 0]
    /\ outcome = [c \in Calls |-> "none"]
    /\ todo = [c \in Calls |-> {}]
    /\ updAttempts = [c \in Calls |-> 0]
    /\ db \in StoredTables
    /\ clientChannels = {}
    /\ readers = {}
    /\ events = [s \in Subs |-> <<>>]
    /\ eventsClosed = [s \in Subs |-> 0]
    /\ doneClosed = [s \in Subs |-> 0]
    /\ spc = [s \in Subs |-> "new"]
    /\ ctxDone = [s \in Subs |-> FALSE]
    /\ stream = [s \in Subs |-> <<>>]
    /\ hubPanic = FALSE
    /\ shutdown = "running"
    /\ published = {}
    /\ finished = {}
    /\ before = {}
    /\ offered = [s \in Subs |-> <<>>]
    /\ dropped = [s \in Subs |-> {}]
    /\ audience = [s \in Subs |-> {}]
    /\ releasedBy = [s \in Subs |-> "none"]
    /\ InitCache
    /\ InitConfig(<<>>)
    /\ InitHandler(IndexRequest)
    /\ InitForwardDefault
    /\ \E size \in PageSizes, param \in PageParams : InitLogList(size, param)

\* the process runs with the default configuration and a call has reached
\* line 504 with any headers, for a backend with any HeaderMapping, the
\* chained one too
InitHeaders ==
    /\ InitProxyHub
    /\ InitCache
    /\ InitConfig(<<>>)
    /\ InitHandler(IndexRequest)
    /\ InitLogDefault
    /\ \E h \in InboundHeaders, k \in {<<>>, <<"static">>},
          m \in HeaderMappings \cup ChainedMappings :
          InitForward(h, [ApiKey |-> k, HeaderMapping |-> m],
                      [StatusCode |-> 200, streaming |-> FALSE, encoding |-> "",
                       body |-> <<>>])

(***************************************************************************)
(* Event Broadcast Hub: sendSSEUpdate                                      *)
(***************************************************************************)
\* the event a call is publishing at its position
CurrentEvent(c) ==
    IF pc[c] = "pubInsert"
    THEN ServerUpdate("insert", c, entryId[c], 0)
    ELSE ServerUpdate("update", c, entryId[c], respStatus[c])

\* s.mu.RLock() and the start of the range loop over s.clientChannels
BeginSend(c, ev) ==
    /\ readers' = readers \cup {c}
    /\ todo' = [todo EXCEPT ![c] = clientChannels]
    /\ published' = published \cup {ev}
    /\ before' = before \cup {<<f, ev>> : f \in finished}
    /\ audience' = [s \in Subs |->
                      IF s \in clientChannels THEN audience[s] \cup {ev} ELSE audience[s]]

\* SelectSend as it would be without the default case: with a full queue
\* no case is ready and the publisher waits
SelectSendBlocking(s) ==
    (IF doneClosed[s] > 0 THEN {"done"} ELSE {})
    \cup (IF eventsClosed[s] > 0 \/ Len(events[s]) < QueueCap THEN {"send"} ELSE {})

\* SelectSend as it would be if the done case could be taken for an open
\* session: the event is skipped although the queue has room
SelectSendSpurious(s) ==
    {"done"} \cup (IF eventsClosed[s] > 0 \/ Len(events[s]) < QueueCap
                   THEN {"send"} ELSE {"default"})

\* the cases of sendSSEUpdate's select that are ready for session s; Go
\* takes any ready case and the default only when none is
SelectSend(s) ==
    LET ready == (IF doneClosed[s] > 0 THEN {"done"} ELSE {})
                 \cup (IF eventsClosed[s] > 0 \/ Len(events[s]) < QueueCap
                       THEN {"send"} ELSE {})
    IN  IF ready = {} THEN {"default"} ELSE ready

\* RestOfLoop as it would be with a break (or return) in the default case
RestOfLoopBreak(S, s, choice) == IF choice = "default" THEN {} ELSE S \ {s}

\* the sessions the range loop still has to visit after the select on s
RestOfLoop(S, s, choice) == S \ {s}

\* one iteration of the range loop: the select on client s
SendTo(c, s) ==
    /\ pc[c] \in {"pubInsert", "pubUpdate"}
    /\ s \in todo[c]
    /\ \E choice \in SelectSend(s) :
         /\ CASE choice = "done" ->
                   UNCHANGED <<events, dropped, hubPanic>>
              [] choice = "send" ->
                   IF eventsClosed[s] > 0
                   THEN /\ hubPanic' = TRUE
                        /\ UNCHANGED <<events, dropped>>
                   ELSE /\ events' = [events EXCEPT ![s] = Append(@, CurrentEvent(c))]
                        /\ UNCHANGED <<dropped, hubPanic>>
              [] OTHER ->
                   /\ dropped' = [dropped EXCEPT ![s] = @ \cup {CurrentEvent(c)}]
                   /\ UNCHANGED <<events, hubPanic>>
         /\ todo' = [todo EXCEPT ![c] = RestOfLoop(@, s, choice)]
    /\ offered' = [offered EXCEPT ![s] = Append(@, CurrentEvent(c))]
    /\ UNCHANGED <<clientChannels, readers, eventsClosed, doneClosed, spc, ctxDone,
                   stream, shutdown, published, finished, before, audience, releasedBy>>
    /\ UNCHANGED <<pc, entryId, respStatus, outcome, updAttempts, db>>
    /\ UNCHANGED <<cacheVars, configVars, routerVars, forwardVars, logVars>>

\* the loop is over: the deferred s.mu.RUnlock(), and the caller goes on
\* (insertLogRequest returns to the dispatch, updateLogRequest to the end
\* of handleProxy)
EndSend(c) ==
    /\ pc[c] \in {"pubInsert", "pubUpdate"}
    /\ todo[c] = {}
    /\ readers' = readers \ {c}
    /\ finished' = finished \cup {CurrentEvent(c)}
    /\ IF pc[c] = "pubInsert"
       THEN /\ pc' = [pc EXCEPT ![c] = "dispatch"]
            /\ UNCHANGED outcome
       ELSE /\ pc' = [pc EXCEPT ![c] = "done"]
            /\ outcome' = [outcome EXCEPT ![c] = "updated"]
    /\ UNCHANGED <<entryId, respStatus, todo, updAttempts, db>>
    /\ UNCHANGED <<clientChannels, events, eventsClosed, doneClosed, spc, ctxDone,
                   stream, hubPanic, shutdown, published, before, audience, offered,
                   dropped, releasedBy>>
    /\ UNCHANGED <<cacheVars, configVars, routerVars, forwardVars, logVars>>

(***************************************************************************)
(* Proxy Engine: handleProxy and the audit log store                       *)
(***************************************************************************)
\* the server takes one more connection: the listener is open (and the
\* model follows one more handler)
Accepts ==
    /\ shutdown # "closed"
    /\ Cardinality({c \in Calls : pc[c] # "idle"})
         + Cardinality({s \in Subs : spc[s] # "new"}) < MaxHandlers

\* a call that passed handleProxy's checks reaches the audit insert; calls
\* are taken up in the order of their numbers (they are interchangeable)
Arrives(c) ==
    /\ pc[c] = "idle"
    /\ Accepts
    /\ IF c = 1 THEN TRUE ELSE pc[c - 1] # "idle"

\* InsertFails as it would be if handleProxy returned on the error
InsertFailsReturns(c) ==
    /\ Arrives(c)
    /\ entryId' = [entryId EXCEPT ![c] = 0]
    /\ pc' = [pc EXCEPT ![c] = "done"]
    /\ UNCHANGED <<respStatus, outcome, todo, updAttempts, db>>
    /\ UNCHANGED hubVars
    /\ UNCHANGED <<cacheVars, configVars, routerVars, forwardVars, logVars>>

\* insertLogRequest: the INSERT failed, 0 and the error are returned and
\* nothing is broadcast; handleProxy logs the error and goes on with
\* entry.Id = 0
InsertFails(c) ==
    /\ Arrives(c)
    /\ entryId' = [entryId EXCEPT ![c] = 0]
    /\ pc' = [pc EXCEPT ![c] = "dispatch"]
    /\ UNCHANGED <<respStatus, outcome, todo, updAttempts, db>>
    /\ UNCHANGED hubVars
    /\ UNCHANGED <<cacheVars, configVars, routerVars, forwardVars, logVars>>

\* insertLogRequest: the row is stored with the next AUTOINCREMENT id and
\* the insert event is handed to sendSSEUpdate
InsertLog(c) ==
    /\ Arrives(c)
    /\ db' = Append(db, PendingRow(c))
    /\ entryId' = [entryId EXCEPT ![c] = Len(db) + 1]
    /\ pc' = [pc EXCEPT ![c] = "pubInsert"]
    /\ BeginSend(c, ServerUpdate("insert", c, Len(db) + 1, 0))
    /\ UNCHANGED <<respStatus, outcome, updAttempts>>
    /\ UNCHANGED <<clientChannels, events, eventsClosed, doneClosed, spc, ctxDone,
                   stream, hubPanic, shutdown, finished, offered, dropped, releasedBy>>
    /\ UNCHANGED <<cacheVars, configVars, routerVars, forwardVars, logVars>>

\* where handleProxy goes when no response was obtained from the backend
\* (http.NewRequestWithContext or s.client.Do returned an error): it
\* writes the error envelope and returns
AfterDispatchError == "done"

\* where handleProxy goes when the body of a non-streaming response could
\* not be read or decompressed: it writes the error envelope and returns
AfterBodyError == "done"

\* s.client.Do(proxyReq) and the handling of the response body. Without a
\* response the handler returns. With one, the body is copied to the caller
\* and prepared for the log: a streaming response always reaches the update
\* (read and decompression errors are only logged), a non-streaming one
\* returns on a read error and on a decompression error.
Dispatch(c) ==
    /\ pc[c] = "dispatch"
    /\ \/ /\ pc' = [pc EXCEPT ![c] = AfterDispatchError]
          /\ outcome' = [outcome EXCEPT ![c] = "doErr"]
          /\ UNCHANGED respStatus
       \/ \E st \in BackendStatuses :
            /\ respStatus' = [respStatus EXCEPT ![c] = st]
            /\ \/ /\ pc' = [pc EXCEPT ![c] = "update"]
                  /\ UNCHANGED outcome
               \/ \E e \in {"readErr", "decompErr"} :
                    /\ pc' = [pc EXCEPT ![c] = AfterBodyError]
                    /\ outcome' = [outcome EXCEPT ![c] = e]
    /\ UNCHANGED <<entryId, todo, updAttempts, db>>
    /\ UNCHANGED hubVars
    /\ UNCHANGED <<cacheVars, configVars, routerVars, forwardVars, logVars>>

\* UpdateRows as it would be without the WHERE clause
UpdateRowsEveryRow(rows, id, st) ==
    [i \in DOMAIN rows |->
        [rows[i] EXCEPT !.status = st, !.duration = 1, !.updates = @ + 1]]

\* UPDATE logs SET ... WHERE id = ?: the row with this id gets the
\* terminal status and duration (no row has id 0)
UpdateRows(rows, id, st) ==
    [i \in DOMAIN rows |->
        IF i = id
        THEN [rows[i] EXCEPT !.status = st, !.duration = 1, !.updates = @ + 1]
        ELSE rows[i]]

\* updateLogRequest: the UPDATE failed, the error is returned and logged
UpdateFails(c) ==
    /\ pc[c] = "update"
    /\ updAttempts' = [updAttempts EXCEPT ![c] = @ + 1]
    /\ pc' = [pc EXCEPT ![c] = "done"]
    /\ outcome' = [outcome EXCEPT ![c] = "updateErr"]
    /\ UNCHANGED <<entryId, respStatus, todo, db>>
    /\ UNCHANGED hubVars
    /\ UNCHANGED <<cacheVars, configVars, routerVars, forwardVars, logVars>>

\* updateLogRequest: the UPDATE ran and the update event is handed to
\* sendSSEUpdate
UpdateLog(c) ==
    /\ pc[c] = "update"
    /\ updAttempts' = [updAttempts EXCEPT ![c] = @ + 1]
    /\ db' = UpdateRows(db, entryId[c], respStatus[c])
    /\ pc' = [pc EXCEPT ![c] = "pubUpdate"]
    /\ BeginSend(c, ServerUpdate("update", c, entryId[c], respStatus[c]))
    /\ UNCHANGED <<entryId, respStatus, outcome>>
    /\ UNCHANGED <<clientChannels, events, eventsClosed, doneClosed, spc, ctxDone,
                   stream, hubPanic, shutdown, finished, offered, dropped, releasedBy>>
    /\ UNCHANGED <<cacheVars, configVars, routerVars, forwardVars, logVars>>

(***************************************************************************)
(* Event Broadcast Hub: handleSse and gracefulShutdownSSE                  *)
(***************************************************************************)
\* close(ch) for the sessions in S: the count of closes
CloseAll(count, S) == [s \in Subs |-> IF s \in S THEN count[s] + 1 ELSE count[s]]

\* closing a closed channel panics
ClosePanics(S) == \E s \in S : doneClosed[s] > 0 \/ eventsClosed[s] > 0

\* CleanupTargets as it would be without the lookup in s.clientChannels
CleanupTargetsUnchecked(s) == {s}

\* the sessions the deferred cleanup of session s closes and unregisters:
\* itself if it is still in s.clientChannels
CleanupTargets(s) == IF s \in clientChannels THEN {s} ELSE {}

\* fmt.Fprintf(w, ...) and flusher.Flush(): the frame follows what was
\* written before
WriteFrame(st, f) == Append(st, f)

\* the client is created and registered under s.mu.Lock()
Register(s) ==
    /\ spc[s] = "new"
    /\ Accepts
    /\ IF s = 1 THEN TRUE ELSE spc[s - 1] # "new"
    /\ readers = {}
    /\ clientChannels' = clientChannels \cup {s}
    /\ spc' = [spc EXCEPT ![s] = "registered"]
    /\ UNCHANGED <<readers, events, eventsClosed, doneClosed, ctxDone, stream,
                   hubPanic, shutdown, published, finished, before, audience, offered,
                   dropped, releasedBy>>
    /\ UNCHANGED proxyVars
    /\ UNCHANGED <<cacheVars, configVars, routerVars, forwardVars, logVars>>

\* WriteInit as it would be if the init frame were not written
WriteInitOmitted(s) ==
    /\ spc[s] = "registered"
    /\ spc' = [spc EXCEPT ![s] = "pump"]
    /\ UNCHANGED <<clientChannels, readers, events, eventsClosed, doneClosed, ctxDone,
                   stream, hubPanic, shutdown, published, finished, before, audience,
                   offered, dropped, releasedBy>>
    /\ UNCHANGED proxyVars
    /\ UNCHANGED <<cacheVars, configVars, routerVars, forwardVars, logVars>>

\* the init frame is written and flushed
WriteInit(s) ==
    /\ spc[s] = "registered"
    /\ stream' = [stream EXCEPT ![s] = WriteFrame(@, InitFrame(s))]
    /\ spc' = [spc EXCEPT ![s] = "pump"]
    /\ UNCHANGED <<clientChannels, readers, events, eventsClosed, doneClosed, ctxDone,
                   hubPanic, shutdown, published, finished, before, audience, offered,
                   dropped, releasedBy>>
    /\ UNCHANGED proxyVars
    /\ UNCHANGED <<cacheVars, configVars, routerVars, forwardVars, logVars>>

\* the subscriber closes its connection: the request context is done
ClientGone(s) ==
    /\ spc[s] \in {"registered", "pump"}
    /\ ~ctxDone[s]
    /\ ctxDone' = [ctxDone EXCEPT ![s] = TRUE]
    /\ UNCHANGED <<clientChannels, readers, events, eventsClosed, doneClosed, spc,
                   stream, hubPanic, shutdown, published, finished, before, audience,
                   offered, dropped, releasedBy>>
    /\ UNCHANGED proxyVars
    /\ UNCHANGED <<cacheVars, configVars, routerVars, forwardVars, logVars>>

\* the ready cases of the message pump's select
SelectPump(s) ==
    (IF ctxDone[s] THEN {"ctx"} ELSE {})
    \cup (IF doneClosed[s] > 0 THEN {"done"} ELSE {})
    \cup (IF events[s] # <<>> THEN {"recv"} ELSE {})
    \cup (IF events[s] = <<>> /\ eventsClosed[s] > 0 THEN {"closed"} ELSE {})

\* one pass of the message pump: a received update is written and flushed,
\* the other cases return
Pump(s) ==
    /\ spc[s] = "pump"
    /\ \E choice \in SelectPump(s) :
         IF choice = "recv"
         THEN /\ stream' = [stream EXCEPT ![s] = WriteFrame(@, Head(events[s]))]
              /\ events' = [events EXCEPT ![s] = Tail(@)]
              /\ UNCHANGED spc
         ELSE /\ spc' = [spc EXCEPT ![s] = "cleanup"]
              /\ UNCHANGED <<stream, events>>
    /\ UNCHANGED <<clientChannels, readers, eventsClosed, doneClosed, ctxDone,
                   hubPanic, shutdown, published, finished, before, audience, offered,
                   dropped, releasedBy>>
    /\ UNCHANGED proxyVars
    /\ UNCHANGED <<cacheVars, configVars, routerVars, forwardVars, logVars>>

\* the deferred cleanup of handleSse, under s.mu.Lock(); the request and
\* its context end with the handler
Cleanup(s) ==
    /\ spc[s] = "cleanup"
    /\ readers = {}
    /\ LET T == CleanupTargets(s)
       IN  /\ doneClosed' = CloseAll(doneClosed, T)
           /\ eventsClosed' = CloseAll(eventsClosed, T)
           /\ hubPanic' = (hubPanic \/ ClosePanics(T))
           /\ clientChannels' = clientChannels \ T
           /\ releasedBy' = [r \in Subs |-> IF r \in T THEN "cleanup" ELSE releasedBy[r]]
    /\ spc' = [spc EXCEPT ![s] = "closed"]
    /\ ctxDone' = [ctxDone EXCEPT ![s] = FALSE]
    /\ UNCHANGED <<readers, events, stream, shutdown, published, finished, before,
                   audience, offered, dropped>>
    /\ UNCHANGED proxyVars
    /\ UNCHANGED <<cacheVars, configVars, routerVars, forwardVars, logVars>>

\* ClearedClients as it would be if the client list were kept
ClientsKept(S) == S

\* 114: s.clientChannels = make(map[string]*SSEClient)
ClearedClients(S) == {}

\* gracefulShutdownSSE, under s.mu.Lock(): every registered client's
\* channels are closed and the client list is replaced by an empty one
GracefulShutdownSSE ==
    /\ shutdown = "running"
    /\ readers = {}
    /\ doneClosed' = CloseAll(doneClosed, clientChannels)
    /\ eventsClosed' = CloseAll(eventsClosed, clientChannels)
    /\ hubPanic' = (hubPanic \/ ClosePanics(clientChannels))
    /\ clientChannels' = ClearedClients(clientChannels)
    /\ releasedBy' = [r \in Subs |->
                        IF r \in clientChannels THEN "shutdown" ELSE releasedBy[r]]
    /\ shutdown' = "sseClosed"
    /\ UNCHANGED <<readers, events, spc, ctxDone, stream, published, finished, before,
                   audience, offered, dropped>>
    /\ UNCHANGED proxyVars
    /\ UNCHANGED <<cacheVars, configVars, routerVars, forwardVars, logVars>>

\* httpServer.Shutdown: the listener is closed, no new call or session
ServerShutdown ==
    /\ shutdown = "sseClosed"
    /\ shutdown' = "closed"
    /\ UNCHANGED <<clientChannels, readers, events, eventsClosed, doneClosed, spc,
                   ctxDone, stream, hubPanic, published, finished, before, audience,
                   offered, dropped, releasedBy>>
    /\ UNCHANGED proxyVars
    /\ UNCHANGED <<cacheVars, configVars, routerVars, forwardVars, logVars>>

(***************************************************************************)
(* Model Aggregation Cache: getAllModels, one goroutine per GET /v1/models *)
(***************************************************************************)
\* getModels' result for provider p: an object with the id for each name
\* of the fixed list of the configuration, or else the objects of the
\* "data" array of the provider's answer as they are
GetModels(p) ==
    IF StaticModels(p) # <<>>
    THEN [i \in DOMAIN StaticModels(p) |-> [id |-> StaticModels(p)[i]]]
    ELSE Upstream(p)

\* id, exists := m["id"].(string)
HasStringId(m) == "id" \in DOMAIN m

\* if id, exists := m["id"].(string); exists { m["id"] = provider + ":" + id }
\* for every entry of a provider's list
Namespaced(p, models) ==
    [i \in DOMAIN models |->
        IF HasStringId(models[i])
        THEN [models[i] EXCEPT !.id = p \o <<58>> \o @]
        ELSE models[i]]

\* a < b of two Go strings: bytewise, a proper prefix is smaller
RECURSIVE Less(_, _)
Less(a, b) ==
    IF b = <<>> THEN FALSE
    ELSE IF a = <<>> THEN TRUE
    ELSE IF Head(a) # Head(b) THEN Head(a) < Head(b)
    ELSE Less(Tail(a), Tail(b))

RECURSIVE InsertSorted(_, _)
InsertSorted(m, sorted) ==
    IF sorted = <<>> THEN <<m>>
    ELSE IF Less(m.id, Head(sorted).id) THEN <<m>> \o sorted
    ELSE <<Head(sorted)>> \o InsertSorted(m, Tail(sorted))

\* sort.Slice(combinedModelData, less by "id"); the ids of one merge are
\* distinct, so the order sort.Slice gives is the one ascending order
RECURSIVE SortSlice(_)
SortSlice(models) ==
    IF models = <<>> THEN <<>>
    ELSE InsertSorted(Head(models), SortSlice(Tail(models)))

\* json.Marshal(map{"object": "list", "data": combinedModelData})
Marshal(models) == [object |-> "list", data |-> models]

\* the handler is entered; requests are numbered in the order they arrive
ReqArrives(r) ==
    /\ mpc[r] = "idle"
    /\ IF r = 1 THEN TRUE ELSE mpc[r - 1] # "idle"

\* RLock; globalModelJSON != nil: the handler goes on to write it, the
\* read lock still held
CacheHit(r) ==
    /\ ReqArrives(r)
    /\ globalModelJSON # Nil
    /\ modelReaders' = modelReaders \cup {r}
    /\ mpc' = [mpc EXCEPT ![r] = "cached"]
    /\ UNCHANGED <<attempt, combinedModelData, respBuffer, globalModelJSON, written,
                   fanOuts, storedValues>>
    /\ UNCHANGED <<proxyVars, hubVars, configVars, routerVars, forwardVars, logVars>>

\* w.Write(globalModelJSON); RUnlock; return
WriteCached(r) ==
    /\ mpc[r] = "cached"
    /\ written' = [written EXCEPT ![r] = globalModelJSON]
    /\ modelReaders' = modelReaders \ {r}
    /\ mpc' = [mpc EXCEPT ![r] = "done"]
    /\ UNCHANGED <<attempt, combinedModelData, respBuffer, globalModelJSON, fanOuts,
                   storedValues>>
    /\ UNCHANGED <<proxyVars, hubVars, configVars, routerVars, forwardVars, logVars>>

\* RLock; globalModelJSON == nil; RUnlock; one goroutine per provider is
\* started (wg.Add(1); go func)
CacheMiss(r) ==
    /\ ReqArrives(r)
    /\ globalModelJSON = Nil
    /\ attempt' = [attempt EXCEPT ![r] =
                      [p \in Providers |-> IF p \in providers THEN "outstanding" ELSE "none"]]
    /\ fanOuts' = fanOuts + 1
    /\ mpc' = [mpc EXCEPT ![r] = "fanout"]
    /\ UNCHANGED <<combinedModelData, respBuffer, globalModelJSON, modelReaders,
                   written, storedValues>>
    /\ UNCHANGED <<proxyVars, hubVars, configVars, routerVars, forwardVars, logVars>>

\* GetModelsFails as it would be if the entries of a failed call were
\* appended all the same
GetModelsFailsAppends(r, p) ==
    /\ attempt[r][p] = "outstanding"
    /\ StaticModels(p) = <<>>
    /\ combinedModelData' =
           [combinedModelData EXCEPT ![r] = @ \o Namespaced(p, GetModels(p))]
    /\ attempt' = [attempt EXCEPT ![r][p] = "failed"]
    /\ UNCHANGED <<mpc, respBuffer, globalModelJSON, modelReaders, written, fanOuts,
                   storedValues>>
    /\ UNCHANGED <<proxyVars, hubVars, configVars, routerVars, forwardVars, logVars>>

\* a provider's goroutine: getModels returned an error (the call failed,
\* timed out or was cancelled); logged, nothing appended, wg.Done
GetModelsFails(r, p) ==
    /\ attempt[r][p] = "outstanding"
    /\ StaticModels(p) = <<>>
    /\ attempt' = [attempt EXCEPT ![r][p] = "failed"]
    /\ UNCHANGED <<mpc, combinedModelData, respBuffer, globalModelJSON, modelReaders,
                   written, fanOuts, storedValues>>
    /\ UNCHANGED <<proxyVars, hubVars, configVars, routerVars, forwardVars, logVars>>

\* a provider's goroutine: getModels returned its list; the ids are
\* namespaced and the entries appended under mu, wg.Done
GetModelsReturns(r, p) ==
    /\ attempt[r][p] = "outstanding"
    /\ combinedModelData' =
           [combinedModelData EXCEPT ![r] = @ \o Namespaced(p, GetModels(p))]
    /\ attempt' = [attempt EXCEPT ![r][p] = "returned"]
    /\ UNCHANGED <<mpc, respBuffer, globalModelJSON, modelReaders, written, fanOuts,
                   storedValues>>
    /\ UNCHANGED <<proxyVars, hubVars, configVars, routerVars, forwardVars, logVars>>

WgWaitSkipped(r) == TRUE

\* wg.Wait() returns: every goroutine of this request ran its wg.Done
WgWait(r) == \A p \in Providers : attempt[r][p] # "outstanding"

\* the less function of sort.Slice asserts combinedModelData[i]["id"].(string)
\* and panics on an entry without a string id; sort.Slice calls it for
\* every entry as soon as there are two
SortPanics(models) ==
    Len(models) >= 2 /\ \E i \in DOMAIN models : ~HasStringId(models[i])

\* after wg.Wait: the sort panics; net/http recovers the panic of the
\* handler's goroutine and closes the connection: nothing is stored and
\* nothing is written
SortPanic(r) ==
    /\ mpc[r] = "fanout"
    /\ WgWait(r)
    /\ SortPanics(combinedModelData[r])
    /\ mpc' = [mpc EXCEPT ![r] = "panicked"]
    /\ UNCHANGED <<attempt, combinedModelData, respBuffer, globalModelJSON,
                   modelReaders, written, fanOuts, storedValues>>
    /\ UNCHANGED <<proxyVars, hubVars, configVars, routerVars, forwardVars, logVars>>

\* after wg.Wait: sort, marshal, and store under modelDataMutex.Lock
StoreSnapshot(r) ==
    /\ mpc[r] = "fanout"
    /\ WgWait(r)
    /\ ~SortPanics(combinedModelData[r])
    /\ modelReaders = {}
    /\ LET buf == Marshal(SortSlice(combinedModelData[r]))
       IN  /\ respBuffer' = [respBuffer EXCEPT ![r] = buf]
           /\ globalModelJSON' = buf
           /\ storedValues' = storedValues \cup {buf}
    /\ mpc' = [mpc EXCEPT ![r] = "respond"]
    /\ UNCHANGED <<attempt, combinedModelData, modelReaders, written, fanOuts>>
    /\ UNCHANGED <<proxyVars, hubVars, configVars, routerVars, forwardVars, logVars>>

\* w.Write(respBuffer)
Respond(r) ==
    /\ mpc[r] = "respond"
    /\ written' = [written EXCEPT ![r] = respBuffer[r]]
    /\ mpc' = [mpc EXCEPT ![r] = "done"]
    /\ UNCHANGED <<attempt, combinedModelData, respBuffer, globalModelJSON,
                   modelReaders, fanOuts, storedValues>>
    /\ UNCHANGED <<proxyVars, hubVars, configVars, routerVars, forwardVars, logVars>>

(***************************************************************************)
(* Request Router and the head of the Proxy Engine: handleProxy up to the  *)
(* dispatch, for one request                                               *)
(***************************************************************************)
\* header names are their words: Access-Control-Allow-Origin is
\* <<"Access", "Control", "Allow", "Origin">>, as net/http canonicalizes them
AccessControl == <<"Access", "Control">>

\* strings.HasPrefix(k, "Access-Control")
HasPrefix(k, prefix) == Len(k) >= Len(prefix) /\ SubSeq(k, 1, Len(prefix)) = prefix

\* the headers handleCORS sets
CORSHeaders ==
    (<<"Access", "Control", "Allow", "Origin">> :> "*")
    @@ (<<"Access", "Control", "Allow", "Credentials">> :> "true")
    @@ (<<"Access", "Control", "Allow", "Methods">> :> "GET, POST, PUT, DELETE, OPTIONS")
    @@ (<<"Access", "Control", "Allow", "Headers">> :> "*")

\* resp.Header of the backend answers followed
BackendHeaders ==
    { <<>>,
      (<<"Content", "Type">> :> "application/json"),
      (<<"Access", "Control", "Allow", "Origin">> :> "https://backend")
          @@ (<<"Access", "Control", "Expose", "Headers">> :> "X-Backend")
          @@ (<<"Content", "Type">> :> "text/event-stream"),
      (<<"Access", "Control", "Allow", "Methods">> :> "GET")
          @@ (<<"Access", "Token">> :> "t") }

\* CopyHeaders as it would be without the test of the prefix
CopyHeadersAll(respHeader, wHeader) == respHeader @@ wHeader

\* w.Header()[k] = v for every header of the backend's answer whose name
\* has not the prefix Access-Control
CopyHeaders(respHeader, wHeader) ==
    [k \in {x \in DOMAIN respHeader : ~HasPrefix(x, AccessControl)} |-> respHeader[k]]
    @@ wHeader

\* the index of the first byte sep of s, 0 if there is none
FirstIndex(s, sep) ==
    IF \E i \in DOMAIN s : s[i] = sep
    THEN CHOOSE i \in DOMAIN s : s[i] = sep /\ \A j \in 1..(i - 1) : s[j] # sep
    ELSE 0

SplitNLast(s, sep) ==
    IF \E i \in DOMAIN s : s[i] = sep
    THEN LET i == CHOOSE k \in DOMAIN s : s[k] = sep /\ \A j \in (k + 1)..Len(s) : s[j] # sep
         IN  <<SubSeq(s, 1, i - 1), SubSeq(s, i + 1, Len(s))>>
    ELSE <<s>>

\* strings.SplitN(s, sep, 2) for a one-byte sep
SplitN(s, sep) ==
    IF FirstIndex(s, sep) = 0 THEN <<s>>
    ELSE <<SubSeq(s, 1, FirstIndex(s, sep) - 1),
           SubSeq(s, FirstIndex(s, sep) + 1, Len(s))>>

\* strings.Trim(s, cutset) for a one-byte cutset
RECURSIVE Trim(_, _)
Trim(s, c) ==
    IF s = <<>> THEN s
    ELSE IF Head(s) = c THEN Trim(Tail(s), c)
    ELSE IF s[Len(s)] = c THEN Trim(SubSeq(s, 1, Len(s) - 1), c)
    ELSE s

\* parseProvider: <<provider, remainingPath>> of r.URL.Path
ParseProvider(path) ==
    LET parts == SplitN(Trim(path, 47), 47)
    IN  IF Len(parts) = 1 THEN <<parts[1], <<>>>> ELSE <<parts[1], parts[2]>>

\* io.ReadAll(http.MaxBytesReader(w, r.Body, httpMaxRequestBodySize)) with
\* the error dropped: the first bytes of the body up to the ceiling; the
\* document is intact if it ends within them
ReadAll(body) ==
    [len |-> IF body.docLen + body.pad <= MaxBytes
             THEN body.docLen + body.pad ELSE MaxBytes,
     intact |-> body.docLen <= MaxBytes]

\* json.Unmarshal(bodyBytes, &bodyJSON) returns no error: the bytes are a
\* whole well-formed document, white space may follow it
UnmarshalOk(body) == ReadAll(body).intact /\ body.doc.wellFormed

\* _, ok := bodyJSON[key].(string)
IsString(json, key) ==
    IF key \in DOMAIN json THEN json[key].type = "string" ELSE FALSE

\* http.Error(w, msg, code)
HttpError(msg, code) ==
    /\ reply' = [status |-> code, error |-> msg]
    /\ header' = (<<"Content", "Type">> :> "text/plain; charset=utf-8")
                 @@ (<<"X", "Content", "Type", "Options">> :> "nosniff")
                 @@ header

V1ModelsRequest(r) ==
    /\ ParseProvider(r.path)[1] = V1
    /\ r.method = "GET"
    /\ ParseProvider(r.path)[2] = ModelsPath

\* HandleCORS as it would be without the answer to OPTIONS
HandleCORSNoPreflight ==
    /\ hpc = "cors"
    /\ header' = CORSHeaders @@ header
    /\ hpc' = "route"
    /\ UNCHANGED <<req, provider, remainingPath, model, bodyJSON, reply, logged,
                   outbound, bodyRead>>
    /\ UNCHANGED <<proxyVars, hubVars, cacheVars, configVars, forwardVars, logVars>>

\* handleCORS: the CORS headers are set; an OPTIONS request is answered
\* with 204 and the handler returns
HandleCORS ==
    /\ hpc = "cors"
    /\ header' = CORSHeaders @@ header
    /\ IF req.method = "OPTIONS"
       THEN /\ reply' = [status |-> 204, error |-> "none"]
            /\ hpc' = "done"
       ELSE /\ hpc' = "route"
            /\ UNCHANGED reply
    /\ UNCHANGED <<req, provider, remainingPath, model, bodyJSON, logged, outbound,
                   bodyRead>>
    /\ UNCHANGED <<proxyVars, hubVars, cacheVars, configVars, forwardVars, logVars>>

\* r.URL.Path == "/": handleIndex writes the index page
HandleIndex ==
    /\ hpc = "route"
    /\ req.path = <<47>>
    /\ reply' = [status |-> 200, error |-> "none"]
    /\ header' = (<<"Content", "Type">> :> "text/html; charset=utf-8") @@ header
    /\ hpc' = "done"
    /\ UNCHANGED <<req, provider, remainingPath, model, bodyJSON, logged, outbound,
                   bodyRead>>
    /\ UNCHANGED <<proxyVars, hubVars, cacheVars, configVars, forwardVars, logVars>>

\* GET /v1/models: the request is handed to getAllModels
RouteAllModels ==
    /\ hpc = "route"
    /\ req.path # <<47>>
    /\ V1ModelsRequest(req)
    /\ provider' = ParseProvider(req.path)[1]
    /\ remainingPath' = ParseProvider(req.path)[2]
    /\ header' = (<<"Content", "Type">> :> "application/json") @@ header
    /\ hpc' = "allModels"
    /\ UNCHANGED <<req, model, bodyJSON, reply, logged, outbound, bodyRead>>
    /\ UNCHANGED <<proxyVars, hubVars, cacheVars, configVars, forwardVars, logVars>>

\* HasBody as it would be if every body were parsed, the empty one too
HasBodyAlways(b) == TRUE

\* 1011: the body is parsed only when bytes were read
HasBody(b) == ReadAll(b).len > 0

\* the body is read and parsed, and the model taken from it
ReadBody ==
    /\ hpc = "route"
    /\ req.path # <<47>>
    /\ ~V1ModelsRequest(req)
    /\ provider' = ParseProvider(req.path)[1]
    /\ remainingPath' = ParseProvider(req.path)[2]
    /\ bodyRead' = TRUE
    /\ IF ~HasBody(req.body)
       THEN /\ hpc' = "resolve"
            /\ UNCHANGED <<model, bodyJSON, reply, header>>
       ELSE IF ~UnmarshalOk(req.body)
       THEN /\ HttpError("Failed to read request body", 500)
            /\ hpc' = "done"
            /\ UNCHANGED <<model, bodyJSON>>
       ELSE IF ~IsString(req.body.doc.object, "model")
       THEN \* model = bodyJSON["model"].(string) panics
            /\ bodyJSON' = req.body.doc.object
            /\ hpc' = "panicked"
            /\ UNCHANGED <<model, reply, header>>
       ELSE /\ bodyJSON' = req.body.doc.object
            /\ model' = req.body.doc.object["model"].s
            /\ hpc' = "resolve"
            /\ UNCHANGED <<reply, header>>
    /\ UNCHANGED <<req, logged, outbound>>
    /\ UNCHANGED <<proxyVars, hubVars, cacheVars, configVars, forwardVars, logVars>>

\* for a /v1 request the provider and the model are taken from the model
ResolveUnified ==
    /\ hpc = "resolve"
    /\ IF provider = V1
       THEN IF Len(SplitN(model, 58)) < 2
            THEN /\ HttpError("Failed to identify provider and model", 404)
                 /\ hpc' = "done"
                 /\ UNCHANGED <<provider, model, bodyJSON>>
            ELSE /\ provider' = SplitN(model, 58)[1]
                 /\ model' = SplitN(model, 58)[2]
                 /\ bodyJSON' = ("model" :> StringValue(SplitN(model, 58)[2])) @@ bodyJSON
                 /\ hpc' = "verify"
                 /\ UNCHANGED <<reply, header>>
       ELSE /\ hpc' = "verify"
            /\ UNCHANGED <<provider, model, bodyJSON, reply, header>>
    /\ UNCHANGED <<req, remainingPath, logged, outbound, bodyRead>>
    /\ UNCHANGED <<proxyVars, hubVars, cacheVars, configVars, forwardVars, logVars>>

\* the provider is looked up in s.config.Providers; a GET of the models
\* of a provider with a fixed list is answered by writeModels
VerifyProvider ==
    /\ hpc = "verify"
    /\ IF provider \notin providers
       THEN /\ HttpError("Invalid provider", 400)
            /\ hpc' = "done"
       ELSE IF req.method = "GET" /\ remainingPath = ModelsPath
               /\ StaticModels(provider) # <<>>
       THEN /\ reply' = [status |-> 200, error |-> "none"]
            /\ header' = (<<"Content", "Type">> :> "application/json") @@ header
            /\ hpc' = "done"
       ELSE /\ hpc' = "log"
            /\ UNCHANGED <<reply, header>>
    /\ UNCHANGED <<req, provider, remainingPath, model, bodyJSON, logged, outbound,
                   bodyRead>>
    /\ UNCHANGED <<proxyVars, hubVars, cacheVars, configVars, forwardVars, logVars>>

\* providerConfig.BaseURL of a provider: "u" and its key
BaseURL(p) == <<117>> \o p

\* TargetURL as it would be if the query string were left out
TargetURLWithoutQuery(p, rest, query) == BaseURL(p) \o <<47>> \o rest

\* 1051-1054: BaseURL + "/" + remainingPath, and "?" + RawQuery when there
\* is a query
TargetURL(p, rest, query) ==
    BaseURL(p) \o <<47>> \o rest \o (IF query # <<>> THEN <<63>> \o query ELSE <<>>)

\* the entry is built and handed to insertLogRequest
LogRequest ==
    /\ hpc = "log"
    /\ logged' = Append(logged, [Provider |-> provider, Model |-> model,
                                 Method |-> req.method,
                                 TargetURL |-> TargetURL(provider, remainingPath,
                                                         req.query),
                                 RequestBodySize |-> ReadAll(req.body).len])
    /\ hpc' = "dispatch"
    /\ UNCHANGED <<req, provider, remainingPath, model, bodyJSON, reply, header,
                   outbound, bodyRead>>
    /\ UNCHANGED <<proxyVars, hubVars, cacheVars, configVars, forwardVars, logVars>>

\* s.client.Do: the call fails, or the backend answers and its headers
\* are copied
DispatchRequest ==
    /\ hpc = "dispatch"
    /\ outbound' = Append(outbound,
                          [Method |-> req.method,
                           URL |-> TargetURL(provider, remainingPath, req.query),
                           Body |-> bodyJSON])
    /\ \/ HttpError("Proxy Error", 500)
       \/ \E respHeader \in BackendHeaders :
             /\ header' = CopyHeaders(respHeader, header)
             /\ reply' = [status |-> 200, error |-> "none"]
    /\ hpc' = "done"
    /\ UNCHANGED <<req, provider, remainingPath, model, bodyJSON, logged, bodyRead>>
    /\ UNCHANGED <<proxyVars, hubVars, cacheVars, configVars, forwardVars, logVars>>

(***************************************************************************)
(* Proxy Engine: proxyHeaders                                              *)
(***************************************************************************)
\* textproto.CanonicalMIMEHeaderKey, word by word: the first letter in
\* upper case
CanonicalWord(w) ==
    CASE w = "authorization" -> "Authorization"
      [] w = "x" -> "X"
      [] w = "api" -> "Api"
      [] w = "key" -> "Key"
      [] OTHER -> w

CanonicalKey(k) == [i \in DOMAIN k |-> CanonicalWord(k[i])]

\* http.Header.Get: the first value under the canonical key, "" for none
Get(h, k) ==
    IF CanonicalKey(k) \in DOMAIN h /\ h[CanonicalKey(k)] # <<>>
    THEN h[CanonicalKey(k)][1]
    ELSE <<>>

\* http.Header.Del
Del(h, k) == [n \in DOMAIN h \ {CanonicalKey(k)} |-> h[n]]

\* http.Header.Set: the key holds this one value
Set(h, k, v) ==
    [n \in DOMAIN h \cup {CanonicalKey(k)} |-> IF n = CanonicalKey(k) THEN <<v>> ELSE h[n]]

\* 44-48: every header of the caller but Host, Cookie and Origin
Strip(h) == [k \in DOMAIN h \ {Host, Cookie, Origin} |-> h[k]]

\* Inject as it would be if a caller's Authorization were kept
InjectIfAbsent(h, p) ==
    IF p.ApiKey # <<>> /\ Authorization \notin DOMAIN h
    THEN Set(h, Authorization, Bearer \o p.ApiKey)
    ELSE h

\* 50-53: the backend's ApiKey replaces the Authorization header
Inject(h, p) ==
    IF p.ApiKey # <<>>
    THEN Set(Del(h, Authorization), Authorization, Bearer \o p.ApiKey)
    ELSE h

\* 56-59: one entry of the HeaderMapping
Rename(h, orig, mapped) ==
    IF Get(h, orig) # <<>> THEN Set(Del(h, orig), mapped, Get(h, orig)) ELSE h

\* 55-60: the entries of the HeaderMapping in the order the range visits them
RECURSIVE RenameAll(_, _, _)
RenameAll(h, mapping, order) ==
    IF order = <<>> THEN h
    ELSE RenameAll(Rename(h, Head(order), mapping[Head(order)]), mapping, Tail(order))

\* proxyHeaders(original, provider), the range over the map taking order
ProxyHeaders(h, p, order) == RenameAll(Inject(Strip(h), p), p.HeaderMapping, order)

(***************************************************************************)
(* Content Decoder: decompressBody                                         *)
(***************************************************************************)
\* data begins with the header of the scheme
HasHeader(data, scheme) == data # <<>> /\ data[1] = [magic |-> scheme]

\* data is a whole payload in the scheme's coding
IsCompressed(data, scheme) ==
    /\ HasHeader(data, scheme)
    /\ Len(data) >= 2
    /\ data[Len(data)] = [trailer |-> scheme]
    /\ \A i \in 2..(Len(data) - 1) : "z" \in DOMAIN data[i] /\ data[i].z = scheme

\* decompressBody(body, encoding): gzip.NewReader and zlib.NewReader read
\* the header and fail without it, the other readers are made without a
\* read, and any other label gives the body back
DecompressBody(data, encoding) ==
    IF ToLower(encoding) \in {"gzip", "deflate"}
    THEN IF HasHeader(data, ToLower(encoding))
         THEN [err |-> "nil", scheme |-> ToLower(encoding), data |-> data]
         ELSE [err |-> "header", scheme |-> "none", data |-> <<>>]
    ELSE IF ToLower(encoding) \in {"br", "zstd", "snappy"}
    THEN [err |-> "nil", scheme |-> ToLower(encoding), data |-> data]
    ELSE [err |-> "nil", scheme |-> "none", data |-> data]

\* io.ReadAll of the reader decompressBody gave
ReadAllDecompressed(reader) ==
    IF reader.scheme = "none" THEN [err |-> "nil", data |-> reader.data]
    ELSE IF IsCompressed(reader.data, reader.scheme)
    THEN [err |-> "nil",
          data |-> [i \in 1..(Len(reader.data) - 2) |-> reader.data[i + 1].of]]
    ELSE [err |-> "corrupt", data |-> <<>>]

(***************************************************************************)
(* Streaming Response Reconstructor: processChunks                         *)
(***************************************************************************)
\* strings.HasPrefix(line, "data: ")
IsMarked(line) == "marker" \in DOMAIN line /\ line.marker

\* json.Unmarshal of the line's data into a map succeeds
IsObject(data) == "text" \notin DOMAIN data

DoneMarker == [text |-> "[DONE]"]

\* unicode.IsSpace for the bytes followed
IsSpace(b) == b \in {9, 10, 11, 12, 13, 32}

\* strings.TrimSpace
RECURSIVE TrimSpace(_)
TrimSpace(s) ==
    IF s = <<>> THEN s
    ELSE IF IsSpace(Head(s)) THEN TrimSpace(Tail(s))
    ELSE IF IsSpace(s[Len(s)]) THEN TrimSpace(SubSeq(s, 1, Len(s) - 1))
    ELSE s

\* Metadata{}
EmptyMetadata == [ID |-> "", Model |-> "", SystemFingerprint |-> "", Created |-> 0]

\* 120-133: while metadata.ID is empty, every field the frame has is stored
StoreMetadata(metadata, parsed) ==
    IF metadata.ID = ""
    THEN [ID |-> IF "id" \in DOMAIN parsed THEN parsed.id ELSE metadata.ID,
          Model |-> IF "model" \in DOMAIN parsed THEN parsed.model ELSE metadata.Model,
          SystemFingerprint |->
              IF "system_fingerprint" \in DOMAIN parsed THEN parsed.system_fingerprint
              ELSE metadata.SystemFingerprint,
          Created |-> IF "created" \in DOMAIN parsed THEN parsed.created
                      ELSE metadata.Created]
    ELSE metadata

\* choices[0].delta.content of a frame, "" for none
Fragment(parsed) == IF "content" \in DOMAIN parsed THEN parsed.content ELSE <<>>

\* 105-151: the loop over the lines, acc holding the loop's variables
RECURSIVE ProcessLines(_, _)
ProcessLines(lines, acc) ==
    IF lines = <<>> THEN acc
    ELSE IF ~IsMarked(Head(lines)) THEN ProcessLines(Tail(lines), acc)
    ELSE IF Head(lines).payload = DoneMarker THEN [acc EXCEPT !.isOpenAISpec = TRUE]
    ELSE IF ~IsObject(Head(lines).payload)
    THEN ProcessLines(Tail(lines), [acc EXCEPT !.isOpenAISpec = TRUE])
    ELSE ProcessLines(Tail(lines),
             [isOpenAISpec |-> TRUE,
              metadata |-> StoreMetadata(acc.metadata, Head(lines).payload),
              assembledContent |-> acc.assembledContent \o Fragment(Head(lines).payload),
              usageStats |-> IF "usage" \in DOMAIN Head(lines).payload
                             THEN Head(lines).payload.usage ELSE acc.usageStats])

\* processChunks(chunks, totalChunks): the record marshalled when a marked
\* line was seen, string(chunks) otherwise
ProcessChunks(chunks, total) ==
    LET acc == ProcessLines(chunks, [isOpenAISpec |-> FALSE, metadata |-> EmptyMetadata,
                                     assembledContent |-> <<>>, usageStats |-> "null"])
    IN IF acc.isOpenAISpec
       THEN [kind |-> "record", Metadata |-> acc.metadata,
             Content |-> TrimSpace(acc.assembledContent), Usage |-> acc.usageStats,
             TotalChunks |-> total]
       ELSE [kind |-> "raw", chunks |-> chunks]

(***************************************************************************)
(* Proxy Engine: handleProxy from the dispatch to the update               *)
(***************************************************************************)
\* the ResponseWriter has sent a status line
WroteHeader(w) == \E i \in DOMAIN w : w[i].op = "WriteHeader"

\* w.Write(data): the first write sends the status 200 before the data
ResponseWrite(w, data) ==
    (IF WroteHeader(w) THEN w ELSE Append(w, [op |-> "WriteHeader", status |-> 200]))
    \o << [op |-> "Write", data |-> data] >>

\* http.Error(w, msg, code): WriteHeader(code), which net/http ignores
\* once a status line was sent, then the message is written
ResponseError(w, msg, code) ==
    (IF WroteHeader(w) THEN w ELSE Append(w, [op |-> "WriteHeader", status |-> code]))
    \o << [op |-> "Write", data |-> << [error |-> msg] >>] >>

\* ResponseFlush as it would be if the handler did not flush
ResponseFlushOmitted(w) == w

\* f.Flush()
ResponseFlush(w) == Append(w, [op |-> "Flush"])

\* 613-622: the entry handed to updateLogRequest carries the status of
\* the backend's response
UpdateEntry(r, responseBody) ==
    [ResponseStatus |-> r.StatusCode, ResponseBody |-> responseBody]

\* 494-506: the context of the backend call is made from r.Context(),
\* proxyHeaders builds the outbound headers, and s.client.Do is called
SendRequest ==
    /\ fpc = "headers"
    /\ \E order \in Orders(providerConfig.HeaderMapping) :
          proxyHeader' = ProxyHeaders(original, providerConfig, order)
    /\ fpc' = "do"
    /\ UNCHANGED <<original, providerConfig, resp, unread, wire, combinedData, totalChunks,
                   cancelled, entry>>
    /\ UNCHANGED <<proxyVars, hubVars, cacheVars, configVars, routerVars, logVars>>

\* the caller goes away while the backend call is outstanding (in
\* s.client.Do or while the response body is read): net/http cancels
\* r.Context(), and with it the context of the backend call
CancelCall ==
    /\ cancelled = "no"
    /\ fpc \in {"do", "stream", "body"}
    /\ cancelled' = fpc
    /\ UNCHANGED <<original, providerConfig, proxyHeader, resp, fpc, unread, wire,
                   combinedData, totalChunks, entry>>
    /\ UNCHANGED <<proxyVars, hubVars, cacheVars, configVars, routerVars, logVars>>

\* 506-526: s.client.Do returns. It fails (always so once the context is
\* cancelled) and the handler answers with the error and returns, or the
\* backend has answered
DoReturns ==
    /\ fpc = "do"
    /\ \/ /\ wire' = ResponseError(wire, "Proxy Error", 500)
          /\ fpc' = "done"
       \/ /\ cancelled = "no"
          /\ fpc' = IF resp.streaming THEN "stream" ELSE "body"
          /\ UNCHANGED wire
    /\ UNCHANGED <<original, providerConfig, proxyHeader, resp, unread, combinedData,
                   totalChunks, cancelled, entry>>
    /\ UNCHANGED <<proxyVars, hubVars, cacheVars, configVars, routerVars, logVars>>

\* 534-559: one turn of the loop. reader.Read gives n tokens and err; with
\* n > 0 they are written to the caller, flushed and accumulated, and a
\* failed write leaves the loop
ReadChunk ==
    /\ fpc = "stream"
    /\ \E n \in 0..BufSize, err \in {"nil", "EOF", "error"}, sent \in BOOLEAN :
          /\ n <= Len(unread)
          /\ err = "EOF" => n = Len(unread)
          /\ err = "nil" => n > 0
          /\ n = 0 => sent
          /\ cancelled # "no" => err = "error"
          /\ unread' = SubSeq(unread, n + 1, Len(unread))
          /\ totalChunks' = IF n > 0 THEN totalChunks + 1 ELSE totalChunks
          /\ IF n = 0 THEN UNCHANGED <<wire, combinedData>>
             ELSE IF sent
             THEN /\ wire' = ResponseFlush(ResponseWrite(wire, SubSeq(unread, 1, n)))
                  /\ combinedData' = combinedData \o SubSeq(unread, 1, n)
             ELSE /\ wire' = Append(wire, [op |-> "WriteFailed"])
                  /\ UNCHANGED combinedData
          /\ fpc' = IF sent /\ err = "nil" THEN "stream" ELSE "streamEnd"
    /\ UNCHANGED <<original, providerConfig, proxyHeader, resp, cancelled, entry>>
    /\ UNCHANGED <<proxyVars, hubVars, cacheVars, configVars, routerVars, logVars>>

\* AuditData as it would be if a failed decode left nothing for the audit
AuditDataDiscarded(data, encoding) ==
    IF encoding = "" THEN data
    ELSE IF DecompressBody(data, encoding).err # "nil" THEN <<>>
    ELSE ReadAllDecompressed(DecompressBody(data, encoding)).data

\* 561-574: the accumulated bytes, decompressed when that succeeds
AuditData(data, encoding) ==
    IF encoding = "" THEN data
    ELSE IF DecompressBody(data, encoding).err # "nil" THEN data
    ELSE IF ReadAllDecompressed(DecompressBody(data, encoding)).err # "nil" THEN data
    ELSE ReadAllDecompressed(DecompressBody(data, encoding)).data

\* 561-576 and 613-622: after the loop, the audit copy is decompressed,
\* reconstructed and handed to updateLogRequest
EndStream ==
    /\ fpc = "streamEnd"
    /\ entry' = UpdateEntry(resp, ProcessChunks(AuditData(combinedData, resp.encoding),
                                              totalChunks))
    /\ fpc' = "done"
    /\ UNCHANGED <<original, providerConfig, proxyHeader, resp, unread, wire, combinedData,
                   totalChunks, cancelled>>
    /\ UNCHANGED <<proxyVars, hubVars, cacheVars, configVars, routerVars, logVars>>

\* 578-622: the response that is not a stream. io.ReadAll fails (always
\* so once the context is cancelled), or the body is written to the
\* caller and then decompressed for the entry
ReadResponse ==
    /\ fpc = "body"
    /\ \/ /\ wire' = ResponseError(wire, "Failed to read response body", 500)
          /\ \E n \in 0..Len(unread) : unread' = SubSeq(unread, n + 1, Len(unread))
          /\ UNCHANGED entry
       \/ /\ cancelled = "no"
          /\ unread' = <<>>
          /\ IF resp.encoding = ""
             THEN /\ wire' = ResponseWrite(wire, unread)
                  /\ entry' = UpdateEntry(resp, [kind |-> "raw", chunks |-> unread])
             ELSE IF DecompressBody(unread, resp.encoding).err # "nil"
             THEN /\ wire' = ResponseError(ResponseWrite(wire, unread),
                                           "Failed to decompress response", 500)
                  /\ UNCHANGED entry
             ELSE IF ReadAllDecompressed(DecompressBody(unread, resp.encoding)).err # "nil"
             THEN /\ wire' = ResponseError(ResponseWrite(wire, unread),
                                           "Failed to read decompressed response", 500)
                  /\ UNCHANGED entry
             ELSE /\ wire' = ResponseWrite(wire, unread)
                  /\ entry' = UpdateEntry(resp,
                         [kind |-> "raw",
                          chunks |-> ReadAllDecompressed(
                                         DecompressBody(unread, resp.encoding)).data])
    /\ fpc' = "done"
    /\ UNCHANGED <<original, providerConfig, proxyHeader, resp, combinedData, totalChunks,
                   cancelled>>
    /\ UNCHANGED <<proxyVars, hubVars, cacheVars, configVars, routerVars, logVars>>

Next ==
    \/ \E c \in Calls : InsertFails(c)
    \/ \E c \in Calls : InsertLog(c)
    \/ \E c \in Calls : \E s \in Subs : SendTo(c, s)
    \/ \E c \in Calls : EndSend(c)
    \/ \E c \in Calls : Dispatch(c)
    \/ \E c \in Calls : UpdateFails(c)
    \/ \E c \in Calls : UpdateLog(c)
    \/ \E s \in Subs : Register(s)
    \/ \E s \in Subs : WriteInit(s)
    \/ \E s \in Subs : ClientGone(s)
    \/ \E s \in Subs : Pump(s)
    \/ \E s \in Subs : Cleanup(s)
    \/ GracefulShutdownSSE
    \/ ServerShutdown

Spec == Init /\ [][Next]_vars

\* the calls and the sessions of InitBroadcast go on: no call and no
\* session arrives any more
NextBroadcast ==
    \/ \E c \in Calls : \E s \in Subs : SendTo(c, s)
    \/ \E c \in Calls : EndSend(c)
    \/ \E c \in Calls : Dispatch(c)
    \/ \E c \in Calls : UpdateFails(c)
    \/ \E c \in Calls : UpdateLog(c)
    \/ \E s \in Subs : ClientGone(s)
    \/ \E s \in Subs : Pump(s)
    \/ \E s \in Subs : Cleanup(s)
    \/ GracefulShutdownSSE
    \/ ServerShutdown

SpecBroadcast == InitBroadcast /\ [][NextBroadcast]_vars

\* Spec with the fairness of the Go scheduler: a session's goroutine that
\* can write its init frame, or whose pump's select has a ready case, runs
LiveSpec ==
    Spec /\ \A s \in Subs : WF_vars(WriteInit(s)) /\ WF_vars(Pump(s))

NextModels ==
    \/ \E r \in Reqs : CacheHit(r)
    \/ \E r \in Reqs : WriteCached(r)
    \/ \E r \in Reqs : CacheMiss(r)
    \/ \E r \in Reqs : \E p \in Providers : GetModelsFails(r, p)
    \/ \E r \in Reqs : \E p \in Providers : GetModelsReturns(r, p)
    \/ \E r \in Reqs : SortPanic(r)
    \/ \E r \in Reqs : StoreSnapshot(r)
    \/ \E r \in Reqs : Respond(r)

SpecModels == InitModels /\ [][NextModels]_vars

NextRouter ==
    \/ HandleCORS
    \/ HandleIndex
    \/ RouteAllModels
    \/ ReadBody
    \/ ResolveUnified
    \/ VerifyProvider
    \/ LogRequest
    \/ DispatchRequest

SpecRouter == InitRouter /\ [][NextRouter]_vars

\* handleProxy from line 504 on, for one call
NextForward ==
    \/ SendRequest
    \/ CancelCall
    \/ DoReturns
    \/ ReadChunk
    \/ EndStream
    \/ ReadResponse

SpecForward == InitForwardAny /\ [][NextForward]_vars

(***************************************************************************)
(* Audit Log Store: handleLogList                                          *)
(***************************************************************************)
IsDigit(b) == b \in 48..57

\* the number a sequence of digits writes
RECURSIVE DigitsValue(_)
DigitsValue(s) ==
    IF s = <<>> THEN 0
    ELSE 10 * DigitsValue(SubSeq(s, 1, Len(s) - 1)) + (s[Len(s)] - 48)

\* strconv.Atoi: an optional sign and at least one digit, nothing else
Atoi(s) ==
    LET digits == IF s # <<>> /\ s[1] \in {43, 45} THEN Tail(s) ELSE s
    IN  IF digits = <<>> \/ \E i \in DOMAIN digits : ~IsDigit(digits[i])
        THEN [n |-> 0, err |-> "syntax"]
        ELSE [n |-> IF s[1] = 45 THEN 0 - DigitsValue(digits) ELSE DigitsValue(digits),
              err |-> "nil"]

Max(a, b) == IF a >= b THEN a ELSE b

\* 19-37: the page handleLogList settles on
CurrentPage(totalLogs, perPage, param) ==
    LET totalPages == totalLogs \div perPage
        asked == IF Atoi(param).err # "nil" THEN 1 ELSE Atoi(param).n
        clamped == Max(1, IF asked < 1 \/ asked > totalPages THEN totalPages ELSE asked)
    IN  IF (clamped - 1) * perPage > totalLogs THEN Max(1, totalPages) ELSE clamped

\* ORDER BY timestamp DESC: the ids of the rows, the newest first
NewestFirst(rows) == [i \in 1..Len(rows) |-> Len(rows) + 1 - i]

\* LIMIT ? OFFSET ?
QueryLogs(rows, limit, offset) ==
    SubSeq(NewestFirst(rows), offset + 1,
           IF offset + limit <= Len(rows) THEN offset + limit ELSE Len(rows))

\* 85: int(math.Ceil(float64(totalLogs) / float64(perPage)))
TotalPages(totalLogs, perPage) == (totalLogs + perPage - 1) \div perPage

\* 83-88: the LogResponse
LogResponse(rows, perPage, param) ==
    [Logs |-> QueryLogs(rows, perPage,
                        (CurrentPage(Len(rows), perPage, param) - 1) * perPage),
     TotalPages |-> TotalPages(Len(rows), perPage),
     CurrentPage |-> CurrentPage(Len(rows), perPage, param),
     TotalLogs |-> Len(rows)]

\* the count, the query or a scan failed: the error is written with 500
LogListFails ==
    /\ lpc = "count"
    /\ logResponse' = [status |-> 500, error |-> "database"]
    /\ lpc' = "done"
    /\ UNCHANGED <<PageSize, page>>
    /\ UNCHANGED <<proxyVars, hubVars, cacheVars, configVars, routerVars, forwardVars>>

\* handleLogList: the rows are counted, the page settled, the rows of
\* the page read and the response encoded
HandleLogList ==
    /\ lpc = "count"
    /\ logResponse' = [status |-> 200, contentType |-> "application/json",
                       body |-> LogResponse(db, PageSize, page)]
    /\ lpc' = "done"
    /\ UNCHANGED <<PageSize, page>>
    /\ UNCHANGED <<proxyVars, hubVars, cacheVars, configVars, routerVars, forwardVars>>

NextLog == LogListFails \/ HandleLogList

SpecLog == InitLog /\ [][NextLog]_vars

\* proxyHeaders alone: the outbound headers of a call are built
NextHeaders == SendRequest

SpecHeaders == InitHeaders /\ [][NextHeaders]_vars

(***************************************************************************)
(* Properties                                                              *)
(***************************************************************************)
Range(seq) == {seq[i] : i \in DOMAIN seq}

IsEvent(f) == f.eventType \in {"insert", "update"}

\* the insert and update frames written to session s, in order
EventFrames(s) == SelectSeq(stream[s], IsEvent)

\* what session s was given: the frames written and the events queued
Delivered(s) == EventFrames(s) \o events[s]

\* the insert event of the call and record of update event u
InsertOf(u) == ServerUpdate("insert", u.call, u.id, 0)

\* the handler of call c has returned after a successful audit insert
ReturnedAfterInsert(c) == pc[c] = "done" /\ entryId[c] # 0

\* C1: for every call whose pending LogRecord was inserted, exactly one
\* terminal update (updateLogRequest) has been attempted by the time the
\* handler has returned, also after an upstream failure.
C1_TerminalUpdateAttempted ==
    \A c \in Calls : ReturnedAfterInsert(c) => updAttempts[c] = 1

\* C2: every call that reached the backend dispatch has published exactly
\* one insert event, and every published update event carries a record
\* identity that a published insert event carries (the insert is published
\* first), whatever the outcome of the audit insert.
C2_InsertEventBeforeUpdate ==
    /\ \A c \in Calls :
         pc[c] \in {"dispatch", "update", "pubUpdate", "done"}
         => Cardinality({e \in published : e.eventType = "insert" /\ e.call = c}) = 1
    /\ \A u \in published :
         u.eventType = "update"
         => \E i \in published : i.eventType = "insert" /\ i.id = u.id

SendNeverBlocks ==
    \A c \in Calls :
        pc[c] \in {"pubInsert", "pubUpdate"}
        => /\ \A s \in todo[c] : ENABLED SendTo(c, s)
           /\ todo[c] = {} => ENABLED EndSend(c)

\* the select on session s by the publisher c: a full queue keeps its
\* events and the event is dropped for s, a queue with room gets the event
\* at its end; no other session's queue changes and the loop goes on with
\* the sessions not yet visited
SendStepDropsOnlyHere ==
    \A c \in Calls : \A s \in Subs :
        (pc[c] \in {"pubInsert", "pubUpdate"} /\ s \in todo[c] /\ s \notin todo'[c])
        => /\ IF Len(events[s]) >= QueueCap
              THEN /\ events'[s] = events[s]
                   /\ dropped'[s] = dropped[s] \cup {CurrentEvent(c)}
              ELSE /\ events'[s] = Append(events[s], CurrentEvent(c))
                   /\ dropped'[s] = dropped[s]
           /\ \A r \in Subs \ {s} : events'[r] = events[r] /\ dropped'[r] = dropped[r]
           /\ todo'[c] = todo[c] \ {s}

\* C4: sendSSEUpdate never blocks; when a session's queue is full the
\* event is dropped for that session only, its queued events are kept, and
\* the publish goes on to enqueue the event for the sessions with room.
C4_PublishNeverBlocks ==
    [](SendNeverBlocks) /\ [][SendStepDropsOnlyHere]_vars

\* an event was dropped for one session and given to another by the same
\* publish
C4_Witness ==
    \E s, r \in Subs : \E e \in dropped[s] :
        s # r /\ e \in finished /\ e \in Range(Delivered(r))

C6_ReleasedExactlyOnce ==
    \A s \in Subs :
        /\ doneClosed[s] <= 1 /\ eventsClosed[s] <= 1
        /\ s \in clientChannels
           => doneClosed[s] = 0 /\ eventsClosed[s] = 0 /\ releasedBy[s] = "none"
        /\ (s \notin clientChannels /\ spc[s] \in {"registered", "pump", "cleanup"})
           => doneClosed[s] = 1 /\ eventsClosed[s] = 1 /\ releasedBy[s] = "shutdown"
        /\ spc[s] = "closed"
           => /\ s \notin clientChannels
              /\ doneClosed[s] = 1 /\ eventsClosed[s] = 1
              /\ releasedBy[s] \in {"cleanup", "shutdown"}

\* a session that gracefulShutdownSSE released has run its own cleanup
C6_Witness ==
    \E s \in Subs : spc[s] = "closed" /\ releasedBy[s] = "shutdown"

\* the session is open: its handler runs, its client is connected and its
\* channels are not closed
SessionOpen(s) ==
    spc[s] \in {"registered", "pump"} /\ ~ctxDone[s] /\ doneClosed[s] = 0

\* the first frame of a stream is the session's init frame and the others
\* are insert and update frames; an event that sendSSEUpdate's select sent
\* to the session is queued or written
InitFrameFirst ==
    \A s \in Subs :
        /\ stream[s] # <<>> => stream[s][1] = InitFrame(s)
        /\ \A i \in DOMAIN stream[s] : i > 1 => IsEvent(stream[s][i])
        /\ Range(offered[s]) \ dropped[s] = Range(Delivered(s))

\* C7: the first frame written to a session is the init frame with the
\* session's identity, the insert and update frames follow it, and every
\* event published while the session is registered and its queue has room
\* (also before the init frame is written) is eventually written if the
\* session stays open.
C7_InitThenEveryEvent ==
    /\ []InitFrameFirst
    /\ \A s \in Subs : \A n \in 1..(2 * NumCalls) :
         (Len(Delivered(s)) >= n) ~> (Len(EventFrames(s)) >= n \/ ~SessionOpen(s))

\* an event was queued for a session before its init frame was written
\* and the session has written the init frame and then the event
C7_Witness ==
    \E s \in Subs :
        /\ Len(stream[s]) >= 2
        /\ stream[s][1] = InitFrame(s)
        /\ IsEvent(stream[s][2])
        /\ SessionOpen(s)

(***************************************************************************)
(* Model Aggregation Cache                                                 *)
(***************************************************************************)
\* every attempt of request q's fan-out has resolved
AllResolved(q) == \A p \in providers : attempt[q][p] \in {"failed", "returned"}

\* entry e as provider p's entry is to appear in the merge
Prefixed(p, e) ==
    IF "id" \in DOMAIN e THEN [e EXCEPT !.id = p \o <<58>> \o e.id] ELSE e

\* the entries of the providers whose attempt returned for request q
MergedEntries(q) ==
    UNION {{Prefixed(p, GetModels(p)[i]) : i \in DOMAIN GetModels(p)} :
              p \in {x \in Providers : attempt[q][x] = "returned"}}

Ascending(models) ==
    \A i, j \in DOMAIN models :
        (i < j /\ "id" \in DOMAIN models[i] /\ "id" \in DOMAIN models[j])
            => Less(models[i].id, models[j].id)

\* v is the sorted list of the whole merge of a request whose attempts
\* have all resolved
IsCompleteSnapshot(v) ==
    \E q \in Reqs :
        /\ AllResolved(q)
        /\ v.object = "list"
        /\ {v.data[i] : i \in DOMAIN v.data} = MergedEntries(q)
        /\ Len(v.data) = Cardinality(MergedEntries(q))
        /\ Ascending(v.data)

\* request r was answered from the cache
ServedFromCache(r) ==
    written[r] # Nil /\ \A p \in Providers : attempt[r][p] = "none"

\* C8: the snapshot is built at most once: the fan-out over the providers
\* is started at most once over all GET /v1/models requests, and no second
\* value is ever assigned to globalModelJSON.
C8_BuiltAtMostOnce ==
    /\ fanOuts <= 1
    /\ Cardinality(storedValues) <= 1

\* C9: all responses to GET /v1/models carry the same snapshot, whatever
\* the outcome of the providers' list calls for each request.
C9_AllResponsesIdentical ==
    \A r1, r2 \in Reqs :
        (written[r1] # Nil /\ written[r2] # Nil) => written[r1] = written[r2]

\* C10: what is serialized, stored in the cache and written to a caller is
\* the sorted merge of a request all of whose attempts have resolved; the
\* cache is empty or such a complete merge, never one taken while an
\* attempt of its request is outstanding.
C10_OnlyCompleteMerges ==
    /\ globalModelJSON = Nil \/ IsCompleteSnapshot(globalModelJSON)
    /\ \A r \in Reqs :
        /\ respBuffer[r] = Nil \/ (AllResolved(r) /\ IsCompleteSnapshot(respBuffer[r]))
        /\ written[r] = Nil \/ IsCompleteSnapshot(written[r])

\* a request answered with its own merge of three providers, one of which
\* failed, appended in an order the sort had to change, and another
\* request answered from the cache
C10_Witness ==
    \E r, q \in Reqs :
        /\ mpc[r] = "done" /\ ~ServedFromCache(r)
        /\ \E p \in Providers : attempt[r][p] = "failed"
        /\ Len(written[r].data) >= 2
        /\ combinedModelData[r] # written[r].data
        /\ ServedFromCache(q)

\* request r is reading from or writing to the network: it writes the
\* cached bytes or its own bytes to its caller, or one of its calls to a
\* backend is outstanding
NetworkIO(r) ==
    \/ mpc[r] \in {"cached", "respond"}
    \/ \E p \in Providers : attempt[r][p] = "outstanding" /\ StaticModels(p) = <<>>

\* C11: no getAllModels request holds modelDataMutex, in read or write
\* mode, while it reads from or writes to the network (the write lock is
\* taken and released within StoreSnapshot, so only the read mode can span
\* steps).
C11_NoLockAcrossNetwork ==
    \A r \in Reqs : NetworkIO(r) => r \notin modelReaders

\* e is an entry that some provider p supplied to request q, with the id
\* p:modelId
SuppliedNamespaced(q, e) ==
    \E p \in providers :
        /\ attempt[q][p] = "returned"
        /\ \E i \in DOMAIN GetModels(p) :
              /\ "id" \in DOMAIN GetModels(p)[i]
              /\ "id" \in DOMAIN e
              /\ e.id = p \o <<58>> \o GetModels(p)[i].id

\* C13: every entry of a snapshot written to a caller has the id
\* backendId:modelId of the backend that supplied it, whatever the shape
\* of the entries the backends returned, and the entries are in ascending
\* lexical order of that id.
C13_NamespacedAndSorted ==
    \A r \in Reqs :
        written[r] # Nil =>
            /\ \A i \in DOMAIN written[r].data :
                  \E q \in Reqs : SuppliedNamespaced(q, written[r].data[i])
            /\ \A i, j \in DOMAIN written[r].data :
                  i < j => Less(written[r].data[i].id, written[r].data[j].id)

\* request r ran its own fan-out and wrote its response
AnsweredOwnMerge(r) == mpc[r] = "done" /\ ~ServedFromCache(r)

\* C12: a provider whose list call failed is skipped. What a request
\* serializes after its fan-out holds exactly the entries of the providers
\* whose call returned, so none of a failed provider and all of every
\* other; the request answers with that list, a success; a request that
\* can sort and finds the cache lock free can store; and a request ends
\* without a response only because a returned entry has no string id,
\* never because a call failed.
C12_FailedBackendSkipped ==
    \A r \in Reqs :
        /\ respBuffer[r] # Nil =>
              /\ respBuffer[r].object = "list"
              /\ {respBuffer[r].data[i] : i \in DOMAIN respBuffer[r].data}
                     = MergedEntries(r)
              /\ Len(respBuffer[r].data) = Cardinality(MergedEntries(r))
        /\ AnsweredOwnMerge(r) => (written[r] # Nil /\ written[r] = respBuffer[r])
        /\ (mpc[r] = "fanout" /\ AllResolved(r) /\ modelReaders = {}
              /\ ~SortPanics(combinedModelData[r])) => ENABLED StoreSnapshot(r)
        /\ mpc[r] = "panicked" =>
              \E p \in providers :
                  /\ attempt[r][p] = "returned"
                  /\ \E i \in DOMAIN GetModels(p) : "id" \notin DOMAIN GetModels(p)[i]

\* a request answered with a list that holds the entries of the provider
\* that returned over the network, while the call to another provider failed
C12_Witness ==
    \E r \in Reqs :
        /\ AnsweredOwnMerge(r)
        /\ \E p \in providers : attempt[r][p] = "failed"
        /\ \E p \in providers : attempt[r][p] = "returned" /\ StaticModels(p) = <<>>
        /\ Len(written[r].data) = Cardinality(MergedEntries(r))
        /\ Len(written[r].data) >= 3

(***************************************************************************)
(* Request Router and the head of the Proxy Engine                         *)
(***************************************************************************)
\* the request came in on the unified endpoint
Unified == ParseProvider(req.path)[1] = V1

\* the body of the request holds a "model" that is a string
ModelIsString == IsString(req.body.doc.object, "model")

\* the handler has resolved the provider and the model
Resolved == hpc \in {"verify", "log", "dispatch"} \/ logged # <<>>

\* C14: on the unified endpoint, for a body whose model is a string
\* backend:model, the provider is the text before the first ':' and the
\* model is all of the text after it; the request is not refused as
\* lacking the delimiter; and these two are the Provider and the Model of
\* the entry handed to insertLogRequest.
C14_SplitOnFirstColon ==
    (Unified /\ ModelIsString /\ FirstIndex(req.body.doc.object["model"].s, 58) > 0) =>
        /\ reply.status # 404
        /\ Resolved =>
              /\ provider \o <<58>> \o model = req.body.doc.object["model"].s
              /\ \A i \in DOMAIN provider : provider[i] # 58
              /\ bodyJSON["model"] = StringValue(model)
              /\ \A i \in DOMAIN logged :
                    logged[i].Provider = provider /\ logged[i].Model = model

\* an entry was logged for the model "a:m:1" of a unified request: its
\* Provider is "a" and its Model "m:1"
C14_Witness ==
    /\ Unified
    /\ ModelIsString
    /\ Len(logged) = 1
    /\ logged[1].Provider = <<97>>
    /\ logged[1].Model = <<109, 58, 49>>

\* the handler has ended: it returned, or its goroutine panicked
Ended == hpc \in {"done", "allModels", "panicked"}

\* the request was refused with a 4xx status and an error envelope, with
\* no entry logged and no call to a backend
RefusedAsClientError ==
    /\ hpc = "done"
    /\ reply.status \in 400..499
    /\ reply.error # "none"
    /\ logged = <<>>
    /\ outbound = <<>>

\* the body is empty, or a well-formed document within the size ceiling
BodyEmptyOrParsed == req.body = EmptyBody \/ UnmarshalOk(req.body)

\* C15: a non-GET call on the unified endpoint whose body has no model, a
\* model that is no string, or a model string without ':', ends refused
\* with a 4xx error envelope, no entry logged and no call to a backend.
C15_InvalidModelRefused ==
    (/\ Ended
     /\ Unified
     /\ req.method = "POST"
     /\ BodyEmptyOrParsed
     /\ \/ ~ModelIsString
        \/ FirstIndex(req.body.doc.object["model"].s, 58) = 0)
        => RefusedAsClientError

\* the request names a backend: on a direct route the leading segment of
\* the path, on the unified endpoint the text before the first ':' of the
\* model string
NamesBackend ==
    IF Unified
    THEN ModelIsString /\ FirstIndex(req.body.doc.object["model"].s, 58) > 0
    ELSE req.path # <<47>>

\* the backend id the request names
NamedBackend ==
    IF Unified THEN SplitN(req.body.doc.object["model"].s, 58)[1]
    ELSE ParseProvider(req.path)[1]

\* no provider that the configuration file disables is a key of the
\* provider table, the built-in default included
DisabledNeverRegistered ==
    \A p \in DOMAIN configFile : configFile[p].enabled = "false" => p \notin providers

\* nothing is logged and no backend is called for a provider that is not
\* in the provider table
UnknownNeverLoggedNorCalled ==
    (logged # <<>> \/ outbound # <<>>) => provider \in providers

\* C16: a request that names a backend that is not in the provider table
\* (a backend disabled in the configuration is not in it) ends refused
\* with a 4xx error envelope, nothing logged, no backend called.
C16_UnknownBackendRefused ==
    /\ DisabledNeverRegistered
    /\ UnknownNeverLoggedNorCalled
    /\ (/\ Ended
        /\ req.method # "OPTIONS"
        /\ BodyEmptyOrParsed
        /\ NamesBackend
        /\ NamedBackend \notin providers)
           => RefusedAsClientError

\* the body of the request is larger than the ceiling
Oversize == req.body.docLen + req.body.pad > MaxBytes

\* C17: for a request whose body exceeds the ceiling, whatever the body
\* holds, no entry is logged and no backend is called.
C17_OversizeNeverDispatched ==
    Oversize => (logged = <<>> /\ outbound = <<>>)

\* the body of the request is not empty, within the ceiling, and no
\* well-formed JSON
Malformed == req.body.docLen > 0 /\ ~Oversize /\ ~req.body.doc.wellFormed

\* C18: a request whose body is not well-formed JSON, once its body was
\* read and the handler has ended, is refused with a 4xx status and an
\* error envelope, with no entry logged and no backend called.
C18_MalformedBodyIsClientError ==
    (Ended /\ bodyRead /\ Malformed) => RefusedAsClientError

\* C19: an OPTIONS request, whatever its path and body, is answered in
\* the handler's first step with 204 and no error; its body is never
\* read, no entry is logged, no event is published and no backend called.
C19_OptionsAnsweredAtOnce ==
    req.method = "OPTIONS" =>
        /\ hpc \in {"cors", "done"}
        /\ hpc = "cors" => ENABLED HandleCORS
        /\ hpc = "done" => reply = [status |-> 204, error |-> "none"]
        /\ ~bodyRead
        /\ logged = <<>>
        /\ published = {}
        /\ outbound = <<>>

\* an OPTIONS request for an unknown backend with an oversize malformed
\* body was answered with 204
C19_Witness ==
    /\ req.method = "OPTIONS"
    /\ ParseProvider(req.path)[1] = UnknownProvider
    /\ Oversize
    /\ ~req.body.doc.wellFormed
    /\ hpc = "done"
    /\ reply.status = 204

\* C20: from the handler's first step on, and so in every response it
\* produces, the response headers hold the engine's allow-origin,
\* allow-methods and allow-headers values (and allow-credentials), and
\* every Access-Control header among them is one of the engine's with the
\* engine's value, whatever headers the backend answered with.
C20_EngineOwnsCORS ==
    hpc # "cors" =>
        /\ \A k \in DOMAIN CORSHeaders : k \in DOMAIN header /\ header[k] = CORSHeaders[k]
        /\ \A k \in DOMAIN header :
              HasPrefix(k, AccessControl) =>
                  (k \in DOMAIN CORSHeaders /\ header[k] = CORSHeaders[k])

\* a backend that answered with its own Access-Control-Allow-Origin and
\* the content type of an event stream: the content type was copied, the
\* allow-origin is the engine's
C20_Witness ==
    /\ hpc = "done"
    /\ Len(outbound) = 1
    /\ reply.status = 200
    /\ <<"Content", "Type">> \in DOMAIN header
    /\ header[<<"Content", "Type">>] = "text/event-stream"
    /\ header[<<"Access", "Control", "Allow", "Origin">>] = "*"

(***************************************************************************)
(* Properties of the forwarding path                                       *)
(***************************************************************************)
\* the keys of the backend's HeaderMapping that name Authorization
RenamesAuthorization(p) == {k \in DOMAIN p.HeaderMapping : CanonicalKey(k) = Authorization}

\* the header name the backend's credential travels under: the name its
\* HeaderMapping gives Authorization, Authorization for none
CredentialName(p) ==
    IF RenamesAuthorization(p) = {} THEN Authorization
    ELSE CanonicalKey(p.HeaderMapping[CHOOSE k \in RenamesAuthorization(p) : TRUE])

RECURSIVE WrittenBytes(_)
WrittenBytes(w) ==
    IF w = <<>> THEN <<>>
    ELSE IF Head(w).op = "Write" THEN Head(w).data \o WrittenBytes(Tail(w))
    ELSE WrittenBytes(Tail(w))

\* the bytes reader.Read has given the handler so far
ReadSoFar == SubSeq(resp.body, 1, Len(resp.body) - Len(unread))

\* the backend answered with an event stream and the loop was entered
StreamOpened ==
    /\ resp.streaming
    /\ fpc \in {"stream", "streamEnd"} \/ (fpc = "done" /\ entry # Nil)

\* a write to the caller failed
WriteFailed == \E i \in DOMAIN wire : wire[i].op = "WriteFailed"

\* every write is followed at once by a flush, and there are n of each
FlushedPerUnit(n) ==
    /\ \A i \in DOMAIN wire :
          wire[i].op = "Write" => (i < Len(wire) /\ wire[i + 1].op = "Flush")
    /\ Cardinality({i \in DOMAIN wire : wire[i].op = "Write"}) = n
    /\ Cardinality({i \in DOMAIN wire : wire[i].op = "Flush"}) = n

IsPrefixOf(s, t) == Len(s) <= Len(t) /\ s = SubSeq(t, 1, Len(s))

\* C22 as stated: for an event stream, at every point of the loop and
\* after it, the bytes written to the caller and the bytes accumulated for
\* the audit both equal the bytes read from the backend so far, and each
\* read unit was followed by one flush.
C22_WrittenEqualsRead ==
    StreamOpened =>
        /\ WrittenBytes(wire) = ReadSoFar
        /\ combinedData = ReadSoFar
        /\ FlushedPerUnit(totalChunks)

\* C22: for an event stream, the bytes written to the caller and the
\* bytes accumulated for the audit are the same sequence, a prefix of the
\* bytes read from the backend, and the whole of them as long as no write
\* to the caller has failed; every write is followed at once by one flush,
\* one pair for each read unit that carried bytes (but the unit whose
\* write failed); the reconstruction after the loop writes nothing.
C22_WrittenEqualsAccumulated ==
    StreamOpened =>
        /\ WrittenBytes(wire) = combinedData
        /\ IsPrefixOf(combinedData, ReadSoFar)
        /\ ~WriteFailed => combinedData = ReadSoFar
        /\ FlushedPerUnit(IF WriteFailed THEN totalChunks - 1 ELSE totalChunks)

\* a compressed event stream of two lines, read in two units and written
\* without failure; the handler has ended and the entry holds the
\* reconstructed record
C22_Witness ==
    /\ StreamOpened
    /\ fpc = "done"
    /\ resp.encoding = "gzip"
    /\ ~WriteFailed
    /\ totalChunks = 2
    /\ Len(resp.body) = 4
    /\ WrittenBytes(wire) = resp.body
    /\ entry.ResponseBody.kind = "record"

\* the handler has ended an event stream with a reconstructed record
Reconstructed ==
    /\ resp.streaming
    /\ fpc = "done"
    /\ entry # Nil
    /\ entry.ResponseBody.kind = "record"

\* the lines processChunks was given
AuditLines == AuditData(combinedData, resp.encoding)

\* the JSON objects of the marked lines, in arrival order, up to the end
\* marker
RECURSIVE FramesOf(_)
FramesOf(lines) ==
    IF lines = <<>> THEN <<>>
    ELSE IF ~IsMarked(Head(lines)) THEN FramesOf(Tail(lines))
    ELSE IF Head(lines).payload = DoneMarker THEN <<>>
    ELSE IF ~IsObject(Head(lines).payload) THEN FramesOf(Tail(lines))
    ELSE <<Head(lines).payload>> \o FramesOf(Tail(lines))

\* the frame exposes some identifying metadata
ExposesMetadata(f) == DOMAIN f \cap {"id", "model", "system_fingerprint", "created"} # {}

\* the metadata one frame exposes, the zero value for what it has not
MetadataOf(f) ==
    [ID |-> IF "id" \in DOMAIN f THEN f.id ELSE "",
     Model |-> IF "model" \in DOMAIN f THEN f.model ELSE "",
     SystemFingerprint |-> IF "system_fingerprint" \in DOMAIN f THEN f.system_fingerprint
                           ELSE "",
     Created |-> IF "created" \in DOMAIN f THEN f.created ELSE 0]

\* C23: the metadata of a reconstructed record is the metadata of the
\* first frame, in arrival order, that exposes any of id, model,
\* fingerprint and creation time, whether or not that frame has an id; no
\* later frame changes a field.
C23_FirstFrameFixesMetadata ==
    Reconstructed =>
        LET frames == FramesOf(AuditLines)
            exposing == {i \in DOMAIN frames : ExposesMetadata(frames[i])}
        IN IF exposing = {} THEN entry.ResponseBody.Metadata = EmptyMetadata
           ELSE entry.ResponseBody.Metadata
                    = MetadataOf(frames[CHOOSE i \in exposing : \A j \in exposing : i <= j])

\* every line is an event frame: marked, with a JSON object as payload
WellFormed(lines) ==
    \A i \in DOMAIN lines : IsMarked(lines[i]) /\ IsObject(lines[i].payload)

\* the incremental content fragments of the frames, joined in order
RECURSIVE Concatenation(_)
Concatenation(frames) ==
    IF frames = <<>> THEN <<>>
    ELSE (IF "content" \in DOMAIN Head(frames) THEN Head(frames).content ELSE <<>>)
         \o Concatenation(Tail(frames))

\* C24: for a stream of well-formed frames the content of the
\* reconstructed record is the fragments of all its frames joined in
\* arrival order, byte for byte, white space at either end included.
C24_ContentIsConcatenation ==
    (Reconstructed /\ WellFormed(AuditLines)) =>
        entry.ResponseBody.Content = Concatenation(FramesOf(AuditLines))

\* no line is an event frame: each is unmarked, or marked with a payload
\* that is not a JSON object
NeverMatches(lines) ==
    \A i \in DOMAIN lines :
        "marker" \in DOMAIN lines[i]
        /\ (~lines[i].marker \/ lines[i].payload = [text |-> "not json"])

\* C25: for an event stream none of whose lines is an event frame, the
\* body of the entry handed to updateLogRequest is the received bytes as
\* they came.
C25_FallbackIsVerbatim ==
    (resp.streaming /\ fpc = "done" /\ entry # Nil /\ NeverMatches(AuditLines)) =>
        entry.ResponseBody = [kind |-> "raw", chunks |-> AuditLines]

\* the label is neither empty, nor identity, nor one of the schemes
UnknownLabel(encoding) == encoding \notin {"", "identity"} /\ ToLower(encoding) \notin Schemes

\* the bytes the handler hands to decompressBody
Received == IF resp.streaming THEN combinedData ELSE resp.body

\* the handler has called decompressBody on the bytes it received: after
\* the loop of an event stream, or after the body was read and written
DecodeCalled ==
    /\ fpc = "done"
    /\ resp.encoding # ""
    /\ IF resp.streaming THEN entry # Nil
       ELSE \E i \in DOMAIN wire : wire[i] = [op |-> "Write", data |-> resp.body]

\* C26: whenever the handler decodes a response whose Content-Encoding is
\* neither identity nor a supported scheme, decompressBody returns an
\* error; it does not hand the bytes back as a successful decode.
C26_UnknownLabelFails ==
    (DecodeCalled /\ UnknownLabel(resp.encoding)) =>
        /\ DecompressBody(Received, resp.encoding).err # "nil"
        /\ ~resp.streaming => entry = Nil

\* decoding the bytes fails: in decompressBody, or in the read that follows
DecodeFails(data, encoding) ==
    \/ DecompressBody(data, encoding).err # "nil"
    \/ ReadAllDecompressed(DecompressBody(data, encoding)).err # "nil"

\* the status line the caller was sent, 0 for none
StatusSent ==
    IF WroteHeader(wire)
    THEN wire[CHOOSE i \in DOMAIN wire : wire[i].op = "WriteHeader"].status
    ELSE 0

\* C27: a response that is not a stream and whose body cannot be decoded
\* ends the call with a 5xx status and an error envelope, and the
\* backend's body is not among the bytes the caller was sent.
C27_DecodeFailureAborts ==
    (~resp.streaming /\ DecodeCalled /\ DecodeFails(resp.body, resp.encoding)) =>
        /\ StatusSent >= 500
        /\ \E i \in DOMAIN wire :
              /\ wire[i].op = "Write"
              /\ wire[i].data # <<>>
              /\ "error" \in DOMAIN wire[i].data[1]
        /\ \A i \in DOMAIN wire : wire[i].op = "Write" => wire[i].data # resp.body

\* s.client.Do failed and the handler answered with "Proxy Error"
DispatchFailed == wire = ResponseError(<<>>, "Proxy Error", 500)

\* C28: when the handler of an event stream has ended and the accumulated
\* bytes could not be decoded, the caller was sent exactly the accumulated
\* bytes, no error envelope and no error status, and the entry was handed
\* to updateLogRequest with the body made from the undecoded bytes.
C28_StreamDecodeFailureOnlyAudit ==
    (resp.streaming /\ fpc = "done" /\ ~DispatchFailed /\ resp.encoding # ""
     /\ DecodeFails(combinedData, resp.encoding)) =>
        /\ WrittenBytes(wire) = combinedData
        /\ StatusSent \in {0, 200}
        /\ \A i \in DOMAIN wire :
              wire[i].op = "Write" => \A j \in DOMAIN wire[i].data :
                                          "error" \notin DOMAIN wire[i].data[j]
        /\ entry # Nil
        /\ entry.ResponseBody = ProcessChunks(combinedData, totalChunks)

\* an event stream labelled gzip whose two lines are not compressed: both
\* reached the caller, and the entry was updated
C28_Witness ==
    /\ resp.streaming
    /\ fpc = "done"
    /\ resp.encoding = "gzip"
    /\ Len(combinedData) = 2
    /\ DecodeFails(combinedData, resp.encoding)
    /\ WrittenBytes(wire) = resp.body
    /\ entry # Nil
    /\ entry.ResponseBody.kind = "record"

(***************************************************************************)
(* Properties of cancellation and shutdown                                 *)
(***************************************************************************)
\* the session's handler runs, registered, with its done channel open
SessionRunning(s) ==
    /\ spc[s] \in {"registered", "pump"}
    /\ s \in clientChannels
    /\ doneClosed[s] = 0

\* C30: once httpServer.Shutdown has been called, after
\* gracefulShutdownSSE, no subscriber session is running any more,
\* whenever it registered.
C30_NoSessionWhileWaiting ==
    shutdown = "closed" => \A s \in Subs : ~SessionRunning(s)

\* C29: a call that was cancelled while its backend call was outstanding,
\* and whose handler has ended, has handed its entry to updateLogRequest.
C29_CancelledCallStillUpdates ==
    (cancelled # "no" /\ fpc = "done") => entry # Nil

(***************************************************************************)
(* Properties of the audit lifecycle                                       *)
(***************************************************************************)
\* s.client.Do has returned for the call: with a response or with an error
Dispatched(c) == respStatus[c] # 0 \/ outcome[c] \in {"doErr", "readErr", "decompErr"}

\* the audit insert of the call failed
InsertFailed(c) == pc[c] # "idle" /\ entryId[c] = 0

\* C31: a call whose insertLogRequest failed goes on to the dispatch, which
\* nothing holds back, and has been dispatched by the time its handler has
\* returned; a call whose updateLogRequest failed has returned with the
\* backend's response obtained before the update and nothing else recorded
\* against it.
C31_AuditFailureInvisible ==
    \A c \in Calls :
        /\ InsertFailed(c) => pc[c] \in {"dispatch", "update", "pubUpdate", "done"}
        /\ (InsertFailed(c) /\ pc[c] = "dispatch") => ENABLED Dispatch(c)
        /\ (InsertFailed(c) /\ pc[c] = "done") => Dispatched(c)
        /\ outcome[c] = "updateErr" =>
              /\ pc[c] = "done"
              /\ respStatus[c] \in BackendStatuses
              /\ updAttempts[c] = 1

\* one call whose insert failed received the backend's response, and
\* another call's update failed after its response
C31_Witness ==
    \E c, d \in Calls :
        /\ InsertFailed(c)
        /\ pc[c] = "done"
        /\ respStatus[c] \in BackendStatuses
        /\ entryId[d] # 0
        /\ outcome[d] = "updateErr"

(***************************************************************************)
(* Properties of the passthrough                                           *)
(***************************************************************************)
\* the request names a backend in its path and is no preflight
DirectRequest ==
    /\ req.path # <<47>>
    /\ ParseProvider(req.path)[1] # V1
    /\ req.method # "OPTIONS"

\* the request's body is a JSON object with a string "model"
CarriesModel ==
    /\ ReadAll(req.body).len > 0
    /\ UnmarshalOk(req.body)
    /\ IsString(req.body.doc.object, "model")

\* the request is the GET of the models of a backend with a fixed list,
\* which writeModels answers
FixedListRequest ==
    /\ req.method = "GET"
    /\ ParseProvider(req.path)[2] = ModelsPath
    /\ StaticModels(ParseProvider(req.path)[1]) # <<>>

SameRequestFields(old, new) == new.call = old.call

\* C33: updateLogRequest runs at most once per call, an entry's id stays
\* the one the insert gave it, and no row is updated twice; in every step
\* the table only grows, every row keeps its request fields, and a row
\* changes only when a call whose entry has the row's id runs its one
\* update: no row at all when that id is 0.
C33_UpdateFrame ==
    /\ [](\A c \in Calls : updAttempts[c] <= 1)
    /\ [](\A i \in DOMAIN db : db[i].updates <= 1)
    /\ [][/\ Len(db') >= Len(db)
          /\ \A c \in Calls : entryId[c] # 0 => entryId'[c] = entryId[c]
          /\ \A i \in DOMAIN db :
                /\ SameRequestFields(db[i], db'[i])
                /\ db'[i] # db[i] =>
                      \E c \in Calls :
                          /\ pc[c] = "update"
                          /\ entryId[c] = i
                          /\ updAttempts[c] = 0
                          /\ updAttempts'[c] = 1]_vars

\* a call whose insert failed has run its update with the id 0, after
\* another call's row got its terminal status, and that row is as it was
C33_Witness ==
    \E c, d \in Calls :
        /\ entryId[c] = 0
        /\ updAttempts[c] = 1
        /\ outcome[c] = "none"
        /\ entryId[d] = 1
        /\ Len(db) = 1
        /\ db[1] = [call |-> d, status |-> 200, duration |-> 1, updates |-> 1]

\* the status the caller gets: the status line that was sent, or the 200
\* net/http sends when the handler returns without having written
CallerStatus == IF WroteHeader(wire) THEN StatusSent ELSE 200

\* the backend's response was read and the entry updated with it
ResponseRead == fpc = "done" /\ entry # Nil

\* C34: for every call that was dispatched and whose response was read,
\* the status the caller gets is the status of the backend's response,
\* the one recorded as ResponseStatus.
C34_StatusIsBackendStatus ==
    ResponseRead =>
        /\ entry.ResponseStatus = resp.StatusCode
        /\ CallerStatus = resp.StatusCode

C36_NoRuntimeFailure ==
    UnmarshalOk(req.body) =>
        /\ hpc # "panicked"
        /\ hpc = "done" => reply.status # 0

\* the channels of session s are open
ChannelsOpen(s) == eventsClosed[s] = 0 /\ doneClosed[s] = 0

\* C37: no event is sent on a closed queue. Every session a publisher
\* still has to visit in its loop is registered and has both channels
\* open, every registered session has, and a step that puts an event on a
\* session's queue finds the session registered and its channels open,
\* and leaves them so.
C37_NoSendOnClosedQueue ==
    /\ [](\A c \in Calls : \A s \in todo[c] : s \in clientChannels /\ ChannelsOpen(s))
    /\ [](\A s \in clientChannels : ChannelsOpen(s))
    /\ [][\A s \in Subs :
             Len(events'[s]) > Len(events[s]) =>
                 /\ s \in clientChannels
                 /\ ChannelsOpen(s)
                 /\ eventsClosed'[s] = 0
                 /\ doneClosed'[s] = 0]_vars

\* a publisher is in its loop with a session still to visit that already
\* holds an event, after gracefulShutdownSSE closed another session's
\* channels
C37_Witness ==
    \E c \in Calls, s, t \in Subs :
        /\ pc[c] \in {"pubInsert", "pubUpdate"}
        /\ s \in todo[c]
        /\ events[s] # <<>>
        /\ releasedBy[t] = "shutdown"
        /\ eventsClosed[t] > 0

\* session s got e before f (written to its stream or waiting in its
\* queue)
GotBefore(s, e, f) ==
    \E i, j \in DOMAIN Delivered(s) :
        i < j /\ Delivered(s)[i] = e /\ Delivered(s)[j] = f

\* C38: any two sessions that both got the same two events got them in
\* the same relative order, with publishers running at the same time.
C38_SameRelativeOrder ==
    \A s, t \in Subs : \A e, f \in published :
        (GotBefore(s, e, f) /\ (GotBefore(t, e, f) \/ GotBefore(t, f, e)))
            => GotBefore(t, e, f)

\* C39: the outbound headers proxyHeaders built are the ones it builds
\* for the same inbound headers and the same backend in whatever order
\* the HeaderMapping is visited, chained entries included.
C39_OrderIndependent ==
    fpc # "headers" =>
        \A order \in Orders(providerConfig.HeaderMapping) :
            proxyHeader = ProxyHeaders(original, providerConfig, order)

\* the page a request asks for: the number its page parameter writes, 1
\* when the parameter is missing or no number
AskedPage == IF Atoi(page).err # "nil" THEN 1 ELSE Atoi(page).n

\* the records at the offsets first to last of the newest-first order
\* (offsets count from 0), as far as there are records
RecordsAt(first, last) ==
    [i \in 1..((IF last < Len(db) THEN last + 1 ELSE Len(db)) - first) |->
        Len(db) - first - i + 1]

\* C40: the response of GET /log?page=N, for every N from 1 to the
\* totalPages it reports, has currentPage = N and lists the records at
\* the offsets (N-1)*pageSize to N*pageSize-1 of the newest-first order;
\* a missing or non-numeric page gives page 1.
C40_EveryPageReachable ==
    (lpc = "done" /\ logResponse.status = 200) =>
        /\ (AskedPage >= 1 /\ AskedPage <= logResponse.body.TotalPages) =>
              /\ logResponse.body.CurrentPage = AskedPage
              /\ logResponse.body.Logs
                     = RecordsAt((AskedPage - 1) * PageSize, AskedPage * PageSize - 1)
        /\ Atoi(page).err # "nil" => logResponse.body.CurrentPage = 1

====
